---- MODULE Spec2Model ----
(***************************************************************************)
(* Model of the program-opportunity pipeline of the repository:            *)
(*   scripts/etl_college_data.py       (calculate_derived_metrics, main)   *)
(*   scripts/program_decision_engine.py (ProgramDecisionEngine, main)      *)
(* and of its API and ingestion loop:                                      *)
(*   api/main.py (SimpleRateLimiter, the profile endpoints)                *)
(*   scripts/etl_college_data.py (fetch_all_data)                          *)
(*                                                                         *)
(* Floating point values are modelled as exact rationals <<n, d>> with     *)
(* d > 0 in lowest terms; <<0, 0>> is NaN (a missing value) and <<1, 0>>,  *)
(* <<-1, 0>> are +inf and -inf.  Rounding error is not modelled.           *)
(* An Optional[T] is a sequence: <<>> is None and <<v>> is the value v.    *)
(* A DataFrame is a sequence of rows (records) in row order; a Series is   *)
(* a sequence of numbers aligned with the rows of its frame.               *)
(***************************************************************************)
EXTENDS Integers, Sequences, FiniteSets, TLC

VARIABLES
    raw_data,        \* program-centric rows the ETL obtained from the API
    schools_fetched, \* whether fetch_all_data returned any school at all
    db,              \* data/colleges.db: [exists, programs]
    etl_done,        \* the ETL script has run
    quicksort_ties,  \* order that the build's unstable quicksort leaves equal keys in
    argv,            \* command line of program_decision_engine.py
    pc,              \* position of program_decision_engine.main
    filters,         \* ProgramFilters built by main (Optional)
    engine,          \* ProgramDecisionEngine object: [exists, _programs]
    error,           \* exception that ended main, or "none"
    rankings,        \* DataFrame returned by rank_programs
    feature_input,   \* frame rank_programs passed to _build_feature_space (Optional)
    stdout,          \* what main printed: "", "no match", "report"
    exported,        \* whether export_rankings wrote the CSV
    calls,           \* rank_programs calls of threads that share one engine:
                     \* [pc, filters, df] for each thread
    now,             \* api/main.py: reading of time.monotonic()
    upload_limiter,  \* upload_limiter.calls: the deque of call times of each key
    accepted,        \* history: the times of the calls check let through, per key
    response,        \* the API's answer to the latest upload: [key, at, status]
    tables,          \* api/main.py: [profiles, portfolio_items, sqlite_sequence]
    requests,        \* the profile request each worker thread is serving or served
                     \* last: [pc, op, user_id, profile_id, payload, status]
    api,             \* what the College Scorecard API answers: [total, results]
    page,            \* fetch_all_data: the page the loop asks for next
    total_pages,     \* fetch_all_data: pages to fetch, known after page 0
    all_records,     \* fetch_all_data: the records collected so far
    fetch_pc,        \* fetch_all_data: "loop" or "returned"
    failures         \* history: requests answered 429 and requests that raised

limiterVars == <<now, upload_limiter, accepted, response>>
profileVars == <<tables, requests>>
fetchVars == <<api, page, total_pages, all_records, fetch_pc, failures>>
serviceVars == <<limiterVars, profileVars, fetchVars>>
pipelineVars == <<raw_data, schools_fetched, db, etl_done, quicksort_ties, argv, pc,
                  filters, engine, error, rankings, feature_input, stdout, exported, calls>>
vars == <<pipelineVars, serviceVars>>

-----------------------------------------------------------------------------
(* Bounds of the model *)

MaxRows == 3
MaxPrice == 2
MaxTopK == 1
MaxImputeRows == 4

-----------------------------------------------------------------------------
(* Exact arithmetic standing for float64 *)

NaN == <<0, 0>>
PosInf == <<1, 0>>
NegInf == <<-1, 0>>

Abs(x) == IF x < 0 THEN -x ELSE x

RECURSIVE GCD(_, _)
GCD(a, b) == IF b = 0 THEN a ELSE GCD(b, a % b)

\* the rational n/d, d # 0, in lowest terms with a positive denominator
R(n, d) ==
    LET s == IF d < 0 THEN -1 ELSE 1
        g == GCD(Abs(n), Abs(d))
    IN  <<(s * n) \div g, (s * d) \div g>>

Num(k) == <<k, 1>>

IsNaN(x) == x = NaN
IsInf(x) == x = PosInf \/ x = NegInf
IsFinite(x) == x[2] > 0

\* float arithmetic on finite values and NaN (NaN is contagious)
RAdd(a, b) == IF ~IsFinite(a) \/ ~IsFinite(b) THEN NaN
              ELSE R(a[1] * b[2] + b[1] * a[2], a[2] * b[2])
RSub(a, b) == IF ~IsFinite(a) \/ ~IsFinite(b) THEN NaN
              ELSE R(a[1] * b[2] - b[1] * a[2], a[2] * b[2])
RMul(a, b) == IF ~IsFinite(a) \/ ~IsFinite(b) THEN NaN
              ELSE R(a[1] * b[1], a[2] * b[2])
\* float division as numpy does it: x/0 is +-inf, 0/0 is NaN
RDiv(a, b) == IF ~IsFinite(a) \/ ~IsFinite(b) THEN NaN
              ELSE IF b[1] = 0
                   THEN (IF a[1] > 0 THEN PosInf ELSE IF a[1] < 0 THEN NegInf ELSE NaN)
                   ELSE R(a[1] * b[2], a[2] * b[1])

\* comparisons of finite values; any comparison with NaN is false
RLe(a, b) == IsFinite(a) /\ IsFinite(b) /\ a[1] * b[2] <= b[1] * a[2]
RLt(a, b) == IsFinite(a) /\ IsFinite(b) /\ a[1] * b[2] < b[1] * a[2]
RGt(a, b) == RLt(b, a)

Zero == Num(0)
One == Num(1)
Half == R(1, 2)

-----------------------------------------------------------------------------
(* Optional values and pandas Series helpers *)

None == <<>>
Some(v) == <<v>>
IsNone(o) == o = <<>>
Val(o) == o[1]

\* Series.fillna(value) for one element
FillNa(x, value) == IF IsNaN(x) THEN value ELSE x

\* Series.dropna()
DropNa(series) == SelectSeq(series, LAMBDA x : ~IsNaN(x))

\* the rows of df at which the boolean mask holds (df[mask]), row order kept
RECURSIVE Mask(_, _)
Mask(df, mask) ==
    IF df = <<>> THEN <<>>
    ELSE (IF Head(mask) THEN <<Head(df)>> ELSE <<>>) \o Mask(Tail(df), Tail(mask))

RECURSIVE Sum(_)
Sum(series) == IF series = <<>> THEN Zero ELSE RAdd(Head(series), Sum(Tail(series)))

\* Series.min() / Series.max() of a non-empty series of finite values
RECURSIVE SeriesMin(_)
SeriesMin(series) ==
    IF Len(series) = 1 THEN series[1]
    ELSE LET m == SeriesMin(Tail(series))
         IN  IF RLe(Head(series), m) THEN Head(series) ELSE m

RECURSIVE SeriesMax(_)
SeriesMax(series) ==
    IF Len(series) = 1 THEN series[1]
    ELSE LET m == SeriesMax(Tail(series))
         IN  IF RLe(m, Head(series)) THEN Head(series) ELSE m

\* position of the first least element of a non-empty series
RECURSIVE ArgMin(_)
ArgMin(series) ==
    IF Len(series) = 1 THEN 1
    ELSE LET j == ArgMin(Tail(series)) + 1
         IN  IF RLe(series[1], series[j]) THEN 1 ELSE j

RemoveAt(s, i) == SubSeq(s, 1, i - 1) \o SubSeq(s, i + 1, Len(s))

RECURSIVE Ascending(_)
Ascending(series) ==
    IF series = <<>> THEN <<>>
    ELSE LET i == ArgMin(series)
         IN  <<series[i]>> \o Ascending(RemoveAt(series, i))

\* Series.mean(): the mean of the non-missing values, NaN when there is none
Mean(series) ==
    LET valid == DropNa(series)
    IN  IF valid = <<>> THEN NaN ELSE RDiv(Sum(valid), Num(Len(valid)))

\* Series.median(): the median of the non-missing values, NaN when there is none
Median(series) ==
    LET valid == Ascending(DropNa(series))
        n == Len(valid)
    IN  IF n = 0 THEN NaN
        ELSE IF n % 2 = 1 THEN valid[(n + 1) \div 2]
        ELSE RDiv(RAdd(valid[n \div 2], valid[n \div 2 + 1]), Num(2))

-----------------------------------------------------------------------------
(* etl_college_data.py *)

\* one program-centric row as transpose_data leaves it
RawRow(code, cred, region, tin, tout, pub, priv, on, off, pell, loan, size) ==
    [program_code |-> code, program_credential_level |-> cred, region_id |-> region,
     tuition_in_state |-> tin, tuition_out_of_state |-> tout,
     net_price_public |-> pub, net_price_private |-> priv,
     roomboard_oncampus |-> on, roomboard_offcampus |-> off,
     pell_grant_rate |-> pell, federal_loan_rate |-> loan, student_size |-> size]

\* Series.replace([inf, -inf], 0)
ReplaceInf(x) == IF IsInf(x) THEN Zero ELSE x

\* mutant of calculate_derived_metrics: the volatility is taken from the in-state
\* tuition or, when that is missing, from the out-of-state tuition
calculate_derived_metrics_any_tuition(row) ==
    LET avg_net_price == FillNa(row.net_price_public, row.net_price_private)
        tuition == FillNa(row.tuition_in_state, row.tuition_out_of_state)
        volatility == RDiv(RSub(tuition, avg_net_price), tuition)
        flag == RGt(RSub(row.roomboard_oncampus, row.roomboard_offcampus),
                    RMul(R(1, 5), row.roomboard_oncampus))
    IN  row @@ [avg_net_price |-> avg_net_price,
                scholarship_volatility |-> FillNa(ReplaceInf(volatility), Zero),
                housing_discrepancy_flag |-> flag]

\* mutant of calculate_derived_metrics: an infinite volatility is stored as it is
calculate_derived_metrics_keep_inf(row) ==
    LET avg_net_price == FillNa(row.net_price_public, row.net_price_private)
        volatility == RDiv(RSub(row.tuition_in_state, avg_net_price), row.tuition_in_state)
        flag == RGt(RSub(row.roomboard_oncampus, row.roomboard_offcampus),
                    RMul(R(1, 5), row.roomboard_oncampus))
    IN  row @@ [avg_net_price |-> avg_net_price,
                scholarship_volatility |-> FillNa(volatility, Zero),
                housing_discrepancy_flag |-> flag]

\* calculate_derived_metrics, for one row (every metric is row-local)
calculate_derived_metrics(row) ==
    LET avg_net_price == FillNa(row.net_price_public, row.net_price_private)
        volatility == RDiv(RSub(row.tuition_in_state, avg_net_price), row.tuition_in_state)
        flag == RGt(RSub(row.roomboard_oncampus, row.roomboard_offcampus),
                    RMul(R(1, 5), row.roomboard_oncampus))
    IN  row @@ [avg_net_price |-> avg_net_price,
                scholarship_volatility |-> FillNa(ReplaceInf(volatility), Zero),
                housing_discrepancy_flag |-> flag]

\* save_to_db: the programs table holds the enriched rows in frame order; SQLite
\* has no boolean type, to_sql stores the flag column as the numbers 1 and 0
save_to_db(df) ==
    [exists |-> TRUE,
     programs |-> [i \in 1..Len(df) |->
        [df[i] EXCEPT !.housing_discrepancy_flag = IF @ THEN One ELSE Zero]]]

-----------------------------------------------------------------------------
(* program_decision_engine.py: ProgramDecisionEngine *)

\* ProgramFilters
ProgramFilters(cip, cred, region, price, k) ==
    [cip_prefix |-> cip, credential_level |-> cred, region_id |-> region,
     max_net_price |-> price, top_k |-> k]

\* _load_program_frame: read_sql_query gives the rows a RangeIndex 0..n-1
load_program_frame(table) ==
    [i \in 1..Len(table) |-> table[i] @@ [index |-> i - 1]]

\* str.startswith
StartsWith(str, prefix) ==
    Len(prefix) <= Len(str) /\ SubSeq(str, 1, Len(prefix)) = prefix

\* Python truth value of an Optional[str] and of an Optional[int]
TruthyStr(o) == ~IsNone(o) /\ Val(o) # <<>>
TruthyInt(o) == ~IsNone(o) /\ Val(o) # 0

\* mutant of resolve_net_price: a row without any net price gets 0.0, not the median
resolve_net_price_without_median(df) ==
    LET base == [i \in 1..Len(df) |->
                    FillNa(FillNa(df[i].avg_net_price, df[i].net_price_public),
                           df[i].net_price_private)]
    IN  [i \in 1..Len(df) |-> FillNa(base[i], Zero)]

\* _resolve_net_price: a Series aligned with df
resolve_net_price(df) ==
    LET base == [i \in 1..Len(df) |->
                    FillNa(FillNa(df[i].avg_net_price, df[i].net_price_public),
                           df[i].net_price_private)]
        median == Median(base)
        median_value == IF IsNaN(median) THEN Zero ELSE median
    IN  [i \in 1..Len(df) |-> FillNa(base[i], median_value)]

\* _apply_filters, lines 85-92: the cip_prefix, credential_level and region_id filters
apply_basic_filters(df, f) ==
    LET df1 == IF TruthyStr(f.cip_prefix)
               THEN SelectSeq(df, LAMBDA r : StartsWith(r.program_code, Val(f.cip_prefix)))
               ELSE df
        df2 == IF TruthyInt(f.credential_level)
               THEN SelectSeq(df1, LAMBDA r : r.program_credential_level = Val(f.credential_level))
               ELSE df1
        df3 == IF TruthyInt(f.region_id)
               THEN SelectSeq(df2, LAMBDA r : r.region_id = Num(Val(f.region_id)))
               ELSE df2
    IN  df3

\* mutant of apply_price_filter: the comparison is reversed (>= instead of <=)
apply_price_filter_reversed(df, f) ==
    IF ~IsNone(f.max_net_price)
    THEN LET net_price == resolve_net_price(df)
         IN  Mask(df, [i \in 1..Len(df) |-> RLe(Val(f.max_net_price), net_price[i])])
    ELSE df

\* mutant of apply_price_filter: an exclusive ceiling (< instead of <=)
apply_price_filter_exclusive(df, f) ==
    IF ~IsNone(f.max_net_price)
    THEN LET net_price == resolve_net_price(df)
         IN  Mask(df, [i \in 1..Len(df) |-> RLt(net_price[i], Val(f.max_net_price))])
    ELSE df

\* _apply_filters, lines 94-96: the max_net_price filter
apply_price_filter(df, f) ==
    IF ~IsNone(f.max_net_price)
    THEN LET net_price == resolve_net_price(df)
         IN  Mask(df, [i \in 1..Len(df) |-> RLe(net_price[i], Val(f.max_net_price))])
    ELSE df

\* _apply_filters
apply_filters(df, f) == apply_price_filter(apply_basic_filters(df, f), f)

\* mutant of min_max: a column whose values are all equal is scaled to 0.0
min_max_constant_to_zero(series) ==
    IF series = <<>> THEN series
    ELSE LET valid == DropNa(series)
         IN  IF valid = <<>> THEN [i \in 1..Len(series) |-> Half]
             ELSE LET lo == SeriesMin(valid)
                      span == RSub(SeriesMax(valid), lo)
                  IN  IF span = Zero THEN [i \in 1..Len(series) |-> Zero]
                      ELSE [i \in 1..Len(series) |->
                               FillNa(RDiv(RSub(series[i], lo), span), Half)]

\* mutant of min_max: missing values are replaced by 0.5 before the minimum and
\* the maximum are taken
min_max_fill_first(series) ==
    IF series = <<>> THEN series
    ELSE LET valid == DropNa(series)
             filled == [i \in 1..Len(series) |-> FillNa(series[i], Half)]
         IN  IF valid = <<>> THEN [i \in 1..Len(series) |-> Half]
             ELSE LET lo == SeriesMin(filled)
                      span == RSub(SeriesMax(filled), lo)
                  IN  IF span = Zero THEN [i \in 1..Len(series) |-> Half]
                      ELSE [i \in 1..Len(series) |-> RDiv(RSub(filled[i], lo), span)]

\* mutant of min_max: the values are divided by the span without the minimum
\* being subtracted
min_max_no_shift(series) ==
    IF series = <<>> THEN series
    ELSE LET valid == DropNa(series)
         IN  IF valid = <<>> THEN [i \in 1..Len(series) |-> Half]
             ELSE LET span == RSub(SeriesMax(valid), SeriesMin(valid))
                  IN  IF span = Zero THEN [i \in 1..Len(series) |-> Half]
                      ELSE [i \in 1..Len(series) |-> FillNa(RDiv(series[i], span), Half)]

\* _min_max
min_max(series) ==
    IF series = <<>> THEN series
    ELSE LET valid == DropNa(series)
         IN  IF valid = <<>> THEN [i \in 1..Len(series) |-> Half]
             ELSE LET lo == SeriesMin(valid)
                      span == RSub(SeriesMax(valid), lo)
                  IN  IF span = Zero THEN [i \in 1..Len(series) |-> Half]
                      ELSE [i \in 1..Len(series) |->
                               FillNa(RDiv(RSub(series[i], lo), span), Half)]

\* mutant of region_program_density: a missing region_id is a group key like any
\* other (dropna=False)
region_program_density_keep_null(df) ==
    [i \in 1..Len(df) |->
        Num(Cardinality({j \in 1..Len(df) :
                /\ df[j].program_code = df[i].program_code
                /\ df[j].region_id = df[i].region_id}))]

\* mutant of region_program_density: the rows are grouped by program_code alone
region_program_density_by_code(df) ==
    [i \in 1..Len(df) |->
        Num(Cardinality({j \in 1..Len(df) : df[j].program_code = df[i].program_code}))]

\* groupby(["program_code", "school.region_id"])["program_code"].transform("count"):
\* groupby drops the rows whose key holds a missing value, which get NaN
region_program_density(df) ==
    [i \in 1..Len(df) |->
        IF IsNaN(df[i].region_id) THEN NaN
        ELSE Num(Cardinality({j \in 1..Len(df) :
                    /\ df[j].program_code = df[i].program_code
                    /\ df[j].region_id = df[i].region_id}))]

\* mutant of build_feature_space: the loan rate and the student size are
\* normalized first and their missing values filled afterwards (by 0.5)
build_feature_space_impute_after_norm(df) ==
    LET n == Len(df)
        col(g(_)) == [i \in 1..n |-> g(df[i])]
        resolved_tuition == col(LAMBDA r : FillNa(r.tuition_in_state, r.tuition_out_of_state))
        avg_net_price_resolved == resolve_net_price(df)
        scholarship_volatility == col(LAMBDA r : FillNa(r.scholarship_volatility, Zero))
        density == region_program_density(df)
        density_norm == min_max(density)
        program_supply_gap == [i \in 1..n |-> RSub(One, density_norm[i])]
        net_price_norm == min_max(avg_net_price_resolved)
        tuition_norm == min_max(resolved_tuition)
        pell_col == col(LAMBDA r : r.pell_grant_rate)
        pell_mean == IF IsNaN(Mean(pell_col)) THEN Zero ELSE Mean(pell_col)
        pell == [i \in 1..n |-> FillNa(pell_col[i], pell_mean)]
        loan_col == col(LAMBDA r : r.federal_loan_rate)
        loan_mean == IF IsNaN(Mean(loan_col)) THEN Zero ELSE Mean(loan_col)
        loan_norm == min_max(loan_col)
        aid_strength_score == [i \in 1..n |->
            RAdd(RMul(R(6, 10), pell[i]), RMul(R(4, 10), RSub(One, loan_norm[i])))]
        affordability_score == [i \in 1..n |->
            RAdd(RAdd(RMul(R(5, 10), RSub(One, net_price_norm[i])),
                      RMul(R(2, 10), scholarship_volatility[i])),
                 RMul(R(3, 10), RSub(One, tuition_norm[i])))]
        size_col == col(LAMBDA r : r.student_size)
        student_median == IF IsNaN(Median(size_col)) THEN Zero ELSE Median(size_col)
        size_norm == min_max(size_col)
        scale_preference_score == [i \in 1..n |-> RSub(One, size_norm[i])]
        supply_gap_score == [i \in 1..n |->
            RAdd(RMul(R(7, 10), program_supply_gap[i]),
                 RMul(R(3, 10), scale_preference_score[i]))]
        housing_discrepancy_flag == [i \in 1..n |->
            FillNa(df[i].housing_discrepancy_flag, Zero) = One]
        housing_penalty == [i \in 1..n |->
            IF housing_discrepancy_flag[i] THEN R(1, 10) ELSE Zero]
        program_opportunity_score == [i \in 1..n |->
            RSub(RAdd(RAdd(RMul(R(45, 100), affordability_score[i]),
                           RMul(R(30, 100), aid_strength_score[i])),
                      RMul(R(25, 100), supply_gap_score[i])),
                 housing_penalty[i])]
    IN  [i \in 1..n |->
            [resolved_tuition |-> resolved_tuition[i],
             avg_net_price_resolved |-> avg_net_price_resolved[i],
             scholarship_volatility |-> scholarship_volatility[i],
             region_program_density |-> density[i],
             program_supply_gap |-> program_supply_gap[i],
             net_price_norm |-> net_price_norm[i],
             tuition_norm |-> tuition_norm[i],
             aid_strength_score |-> aid_strength_score[i],
             affordability_score |-> affordability_score[i],
             scale_preference_score |-> scale_preference_score[i],
             supply_gap_score |-> supply_gap_score[i],
             housing_discrepancy_flag |-> housing_discrepancy_flag[i],
             housing_penalty |-> housing_penalty[i],
             program_opportunity_score |-> program_opportunity_score[i]] @@ df[i]]

\* mutant of build_feature_space: the weights of the affordability and the aid
\* strength are exchanged (0.30 and 0.45)
build_feature_space_weights_swapped(df) ==
    LET n == Len(df)
        col(g(_)) == [i \in 1..n |-> g(df[i])]
        resolved_tuition == col(LAMBDA r : FillNa(r.tuition_in_state, r.tuition_out_of_state))
        avg_net_price_resolved == resolve_net_price(df)
        scholarship_volatility == col(LAMBDA r : FillNa(r.scholarship_volatility, Zero))
        density == region_program_density(df)
        density_norm == min_max(density)
        program_supply_gap == [i \in 1..n |-> RSub(One, density_norm[i])]
        net_price_norm == min_max(avg_net_price_resolved)
        tuition_norm == min_max(resolved_tuition)
        pell_col == col(LAMBDA r : r.pell_grant_rate)
        pell_mean == IF IsNaN(Mean(pell_col)) THEN Zero ELSE Mean(pell_col)
        pell == [i \in 1..n |-> FillNa(pell_col[i], pell_mean)]
        loan_col == col(LAMBDA r : r.federal_loan_rate)
        loan_mean == IF IsNaN(Mean(loan_col)) THEN Zero ELSE Mean(loan_col)
        loan_norm == min_max([i \in 1..n |-> FillNa(loan_col[i], loan_mean)])
        aid_strength_score == [i \in 1..n |->
            RAdd(RMul(R(6, 10), pell[i]), RMul(R(4, 10), RSub(One, loan_norm[i])))]
        affordability_score == [i \in 1..n |->
            RAdd(RAdd(RMul(R(5, 10), RSub(One, net_price_norm[i])),
                      RMul(R(2, 10), scholarship_volatility[i])),
                 RMul(R(3, 10), RSub(One, tuition_norm[i])))]
        size_col == col(LAMBDA r : r.student_size)
        student_median == IF IsNaN(Median(size_col)) THEN Zero ELSE Median(size_col)
        size_norm == min_max([i \in 1..n |-> FillNa(size_col[i], student_median)])
        scale_preference_score == [i \in 1..n |-> RSub(One, size_norm[i])]
        supply_gap_score == [i \in 1..n |->
            RAdd(RMul(R(7, 10), program_supply_gap[i]),
                 RMul(R(3, 10), scale_preference_score[i]))]
        housing_discrepancy_flag == [i \in 1..n |->
            FillNa(df[i].housing_discrepancy_flag, Zero) = One]
        housing_penalty == [i \in 1..n |->
            IF housing_discrepancy_flag[i] THEN R(1, 10) ELSE Zero]
        program_opportunity_score == [i \in 1..n |->
            RSub(RAdd(RAdd(RMul(R(30, 100), affordability_score[i]),
                           RMul(R(45, 100), aid_strength_score[i])),
                      RMul(R(25, 100), supply_gap_score[i])),
                 housing_penalty[i])]
    IN  [i \in 1..n |->
            [resolved_tuition |-> resolved_tuition[i],
             avg_net_price_resolved |-> avg_net_price_resolved[i],
             scholarship_volatility |-> scholarship_volatility[i],
             region_program_density |-> density[i],
             program_supply_gap |-> program_supply_gap[i],
             net_price_norm |-> net_price_norm[i],
             tuition_norm |-> tuition_norm[i],
             aid_strength_score |-> aid_strength_score[i],
             affordability_score |-> affordability_score[i],
             scale_preference_score |-> scale_preference_score[i],
             supply_gap_score |-> supply_gap_score[i],
             housing_discrepancy_flag |-> housing_discrepancy_flag[i],
             housing_penalty |-> housing_penalty[i],
             program_opportunity_score |-> program_opportunity_score[i]] @@ df[i]]

\* _build_feature_space
build_feature_space(df) ==
    LET n == Len(df)
        col(g(_)) == [i \in 1..n |-> g(df[i])]
        resolved_tuition == col(LAMBDA r : FillNa(r.tuition_in_state, r.tuition_out_of_state))
        avg_net_price_resolved == resolve_net_price(df)
        scholarship_volatility == col(LAMBDA r : FillNa(r.scholarship_volatility, Zero))
        density == region_program_density(df)
        density_norm == min_max(density)
        program_supply_gap == [i \in 1..n |-> RSub(One, density_norm[i])]
        net_price_norm == min_max(avg_net_price_resolved)
        tuition_norm == min_max(resolved_tuition)
        pell_col == col(LAMBDA r : r.pell_grant_rate)
        pell_mean == IF IsNaN(Mean(pell_col)) THEN Zero ELSE Mean(pell_col)
        pell == [i \in 1..n |-> FillNa(pell_col[i], pell_mean)]
        loan_col == col(LAMBDA r : r.federal_loan_rate)
        loan_mean == IF IsNaN(Mean(loan_col)) THEN Zero ELSE Mean(loan_col)
        loan_norm == min_max([i \in 1..n |-> FillNa(loan_col[i], loan_mean)])
        aid_strength_score == [i \in 1..n |->
            RAdd(RMul(R(6, 10), pell[i]), RMul(R(4, 10), RSub(One, loan_norm[i])))]
        affordability_score == [i \in 1..n |->
            RAdd(RAdd(RMul(R(5, 10), RSub(One, net_price_norm[i])),
                      RMul(R(2, 10), scholarship_volatility[i])),
                 RMul(R(3, 10), RSub(One, tuition_norm[i])))]
        size_col == col(LAMBDA r : r.student_size)
        student_median == IF IsNaN(Median(size_col)) THEN Zero ELSE Median(size_col)
        size_norm == min_max([i \in 1..n |-> FillNa(size_col[i], student_median)])
        scale_preference_score == [i \in 1..n |-> RSub(One, size_norm[i])]
        supply_gap_score == [i \in 1..n |->
            RAdd(RMul(R(7, 10), program_supply_gap[i]),
                 RMul(R(3, 10), scale_preference_score[i]))]
        housing_discrepancy_flag == [i \in 1..n |->
            FillNa(df[i].housing_discrepancy_flag, Zero) = One]
        housing_penalty == [i \in 1..n |->
            IF housing_discrepancy_flag[i] THEN R(1, 10) ELSE Zero]
        program_opportunity_score == [i \in 1..n |->
            RSub(RAdd(RAdd(RMul(R(45, 100), affordability_score[i]),
                           RMul(R(30, 100), aid_strength_score[i])),
                      RMul(R(25, 100), supply_gap_score[i])),
                 housing_penalty[i])]
    IN  [i \in 1..n |->
            [resolved_tuition |-> resolved_tuition[i],
             avg_net_price_resolved |-> avg_net_price_resolved[i],
             scholarship_volatility |-> scholarship_volatility[i],
             region_program_density |-> density[i],
             program_supply_gap |-> program_supply_gap[i],
             net_price_norm |-> net_price_norm[i],
             tuition_norm |-> tuition_norm[i],
             aid_strength_score |-> aid_strength_score[i],
             affordability_score |-> affordability_score[i],
             scale_preference_score |-> scale_preference_score[i],
             supply_gap_score |-> supply_gap_score[i],
             housing_discrepancy_flag |-> housing_discrepancy_flag[i],
             housing_penalty |-> housing_penalty[i],
             program_opportunity_score |-> program_opportunity_score[i]] @@ df[i]]

\* position in df of the row that an argsort by descending score puts first:
\* the greatest score, and among equal scores the row the build's tie order
\* names; a NaN score is put after every number (na_position defaults to "last")
ArgFirst(df, ties) ==
    CHOOSE i \in 1..Len(df) :
        /\ \A j \in 1..Len(df) :
              \/ IsNaN(df[j].program_opportunity_score)
              \/ RLe(df[j].program_opportunity_score, df[i].program_opportunity_score)
        /\ \A j \in 1..Len(df) :
              df[j].program_opportunity_score = df[i].program_opportunity_score
                 => IF ties = "original" THEN i <= j ELSE j <= i

\* mutant of sort_values: the rows are put in ascending score order
RECURSIVE sort_values_ascending(_, _)
sort_values_ascending(df, ties) ==
    IF df = <<>> THEN <<>>
    ELSE LET i == ArgFirst(df, ties)
         IN  sort_values_ascending(RemoveAt(df, i), ties) \o <<df[i]>>

\* df.sort_values("program_opportunity_score", ascending=False): kind defaults to
\* "quicksort", which pandas documents as not stable; `ties` is the order in which
\* the build leaves rows of equal score ("original" row order or "reversed")
RECURSIVE sort_values(_, _)
sort_values(df, ties) ==
    IF df = <<>> THEN <<>>
    ELSE LET i == ArgFirst(df, ties)
         IN  <<df[i]>> \o sort_values(RemoveAt(df, i), ties)

\* DataFrame.head(n)
head(df, n) ==
    IF n >= 0 THEN SubSeq(df, 1, IF n < Len(df) THEN n ELSE Len(df))
    ELSE SubSeq(df, 1, Len(df) + n)

\* mutant of rank_programs: features are built over the cip/credential/region
\* subset and the rows above the ceiling are excluded afterwards
rank_programs_features_first(programs, f, ties) ==
    LET sub == apply_basic_filters(programs, f)
        built == build_feature_space(sub)
        df == IF IsNone(f.max_net_price) THEN built
              ELSE SelectSeq(built, LAMBDA r : RLe(r.avg_net_price_resolved, Val(f.max_net_price)))
    IN  IF sub = <<>> THEN [df |-> sub, feature_input |-> None]
        ELSE [df |-> head(sort_values(df, ties), f.top_k), feature_input |-> Some(sub)]

\* mutant of rank_programs: features are built over the whole loaded table and
\* the filters are applied afterwards
rank_programs_features_over_table(programs, f, ties) ==
    LET df == apply_filters(build_feature_space(programs), f)
    IN  IF df = <<>> THEN [df |-> df, feature_input |-> None]
        ELSE [df |-> head(sort_values(df, ties), f.top_k),
              feature_input |-> Some(programs)]

\* mutant of rank_programs: the frame is truncated to top_k before it is sorted
rank_programs_head_first(programs, f, ties) ==
    LET df == apply_filters(programs, f)
    IN  IF df = <<>> THEN [df |-> df, feature_input |-> None]
        ELSE [df |-> sort_values(build_feature_space(head(df, f.top_k)), ties),
              feature_input |-> Some(df)]

\* rank_programs: the frame it returns (df) and the frame it handed to
\* _build_feature_space (feature_input, None when it returned before the call)
rank_programs(programs, f, ties) ==
    LET df == apply_filters(programs, f)
    IN  IF df = <<>> THEN [df |-> df, feature_input |-> None]
        ELSE [df |-> head(sort_values(build_feature_space(df), ties), f.top_k),
              feature_input |-> Some(df)]

-----------------------------------------------------------------------------
(* Inputs: the rows the API returned and the command line *)

SeqsUpTo(S, n) == UNION {[1..k -> S] : k \in 0..n}

Prices == {NaN} \cup {Num(k) : k \in 1..MaxPrice}

\* ProgramFilters.top_k and --top-k default
DefaultTopK == 15

\* the domains that build_arg_parser documents for --credential and --region
CredentialLevels == 1..7
RegionIds == 1..9

BaseRow ==
    RawRow(<<1, 1>>, 1, Num(1), Num(1), NaN, Num(1), NaN, NaN, NaN, Half, Half, Num(1))

\* rows that differ in net price only
PriceRows == {[BaseRow EXCEPT !.net_price_public = pub] : pub \in Prices}

\* command lines that set --max-net-price and --top-k and ask for the export
PriceArgvs ==
    [cip_prefix : {None}, credential_level : {None}, region_id : {None},
     max_net_price : {None} \cup {Some(Num(k)) : k \in 0..MaxPrice},
     top_k : 0..MaxTopK \cup {DefaultTopK}, export : {TRUE}]

\* rows that differ from the base row in the program code, the credential level
\* or the region
FilterRows ==
    {BaseRow,
     [BaseRow EXCEPT !.program_code = <<1, 2>>],
     [BaseRow EXCEPT !.program_credential_level = 2],
     [BaseRow EXCEPT !.region_id = NaN]}

\* command lines that set --cip, --credential and --region, inside and outside
\* the documented domains
FilterArgvs ==
    [cip_prefix : {None, Some(<<1>>), Some(<<1, 1>>)},
     credential_level : {None, Some(0), Some(1), Some(8)},
     region_id : {None, Some(0), Some(1), Some(10)},
     max_net_price : {None}, top_k : {DefaultTopK}, export : {FALSE}]

\* rows that differ from the base row in the aid rates, the student size, the
\* region, the tuition or the net prices
FeatureRows ==
    {BaseRow,
     [BaseRow EXCEPT !.pell_grant_rate = NaN, !.federal_loan_rate = NaN],
     [BaseRow EXCEPT !.pell_grant_rate = Zero, !.federal_loan_rate = One],
     [BaseRow EXCEPT !.pell_grant_rate = One, !.federal_loan_rate = Zero,
                     !.student_size = Num(2)],
     [BaseRow EXCEPT !.pell_grant_rate = R(3, 2)],
     [BaseRow EXCEPT !.student_size = NaN, !.region_id = NaN],
     [BaseRow EXCEPT !.student_size = Num(3), !.region_id = Num(2)],
     [BaseRow EXCEPT !.tuition_in_state = NaN, !.tuition_out_of_state = Num(2),
                     !.net_price_public = Num(2)],
     [BaseRow EXCEPT !.tuition_in_state = Zero, !.net_price_public = NaN,
                     !.net_price_private = Num(3)],
     [BaseRow EXCEPT !.tuition_in_state = NaN, !.net_price_public = NaN]}

\* the command line without any option
FeatureArgvs ==
    [cip_prefix : {None}, credential_level : {None}, region_id : {None},
     max_net_price : {None}, top_k : {DefaultTopK}, export : {FALSE}]

\* rows for the score: three that differ in net price only, one with the
\* housing discrepancy (on-campus 2, off-campus 1), one whose net price is three
\* times its tuition with no Pell share and the highest loan rate, one with
\* out-of-state tuition only, and one with zero tuition
ScoreRows ==
    {BaseRow,
     [BaseRow EXCEPT !.net_price_public = Num(2)],
     [BaseRow EXCEPT !.net_price_public = Num(3)],
     [BaseRow EXCEPT !.roomboard_oncampus = Num(2), !.roomboard_offcampus = Num(1)],
     [BaseRow EXCEPT !.net_price_public = Num(3), !.pell_grant_rate = Zero,
                     !.federal_loan_rate = One, !.student_size = Num(2)],
     [BaseRow EXCEPT !.tuition_in_state = NaN, !.tuition_out_of_state = Num(2)],
     [BaseRow EXCEPT !.tuition_in_state = Zero, !.net_price_public = Num(2)]}

\* rows that differ in the (program_code, region_id) group they belong to
DensityRows ==
    {BaseRow,
     [BaseRow EXCEPT !.program_code = <<1, 2>>],
     [BaseRow EXCEPT !.region_id = Num(2)],
     [BaseRow EXCEPT !.region_id = NaN]}

\* rows of two program codes with a missing, a low and a high net price
ScopeRows ==
    {[BaseRow EXCEPT !.program_code = code, !.net_price_public = pub] :
        code \in {<<1, 1>>, <<1, 2>>}, pub \in {NaN, Num(1), Num(2)}}

\* command lines that set --cip and --max-net-price
ScopeArgvs ==
    [cip_prefix : {None, Some(<<1, 1>>)}, credential_level : {None},
     region_id : {None}, max_net_price : {None, Some(Num(1))},
     top_k : {DefaultTopK}, export : {FALSE}]

\* rows that differ in their in-state tuition only: missing, 1, 2 or 3
NormRows ==
    {[BaseRow EXCEPT !.tuition_in_state = tin] : tin \in {NaN, Num(1), Num(2), Num(3)}}

\* rows that differ in the aid rates and the student size: the lowest values,
\* the highest values, and all three missing
ImputeRows ==
    {[BaseRow EXCEPT !.pell_grant_rate = Zero, !.federal_loan_rate = Zero,
                     !.student_size = Num(1)],
     [BaseRow EXCEPT !.pell_grant_rate = One, !.federal_loan_rate = One,
                     !.student_size = Num(3)],
     [BaseRow EXCEPT !.pell_grant_rate = NaN, !.federal_loan_rate = NaN,
                     !.student_size = NaN]}

\* rows that differ in their room and board costs: both missing, off-campus
\* half of on-campus, off-campus exactly 20% below on-campus, and either missing
HousingRows ==
    {[BaseRow EXCEPT !.roomboard_oncampus = p[1], !.roomboard_offcampus = p[2]] :
        p \in {<<NaN, NaN>>, <<Num(2), Num(1)>>, <<Num(5), Num(4)>>,
                <<NaN, Num(1)>>, <<Num(2), NaN>>}}

\* the database file that --db names when the ETL of this repository has not
\* written it: no file, a programs table without the housing_discrepancy_flag
\* column, and a programs table whose flag is null in one row and 1 in another
StoredBaseRow == save_to_db(<<calculate_derived_metrics(BaseRow)>>).programs[1]
CachedDbs ==
    {[exists |-> FALSE, programs |-> <<>>],
     [exists |-> TRUE,
      programs |-> <<[k \in DOMAIN StoredBaseRow \ {"housing_discrepancy_flag"} |->
                        StoredBaseRow[k]]>>],
     [exists |-> TRUE,
      programs |-> <<[StoredBaseRow EXCEPT !.housing_discrepancy_flag = NaN],
                     [StoredBaseRow EXCEPT !.housing_discrepancy_flag = One]>>]}

\* rows that differ in net price only: missing, below and above the ceiling of
\* the command lines that set one
CeilingRows == {[BaseRow EXCEPT !.net_price_public = pub] : pub \in {NaN, Num(1), Num(3)}}
CeilingArgvs ==
    [cip_prefix : {None}, credential_level : {None}, region_id : {None},
     max_net_price : {None, Some(Num(2))}, top_k : {DefaultTopK}, export : {FALSE}]

\* threads of a caller that holds one ProgramDecisionEngine, the requests they
\* make, and the state of a thread that is not inside rank_programs
Threads == {1, 2}
CallFilters ==
    {ProgramFilters(None, None, None, None, DefaultTopK),
     ProgramFilters(None, None, None, Some(Num(1)), DefaultTopK),
     ProgramFilters(None, None, None, None, 1)}
IdleCall == [pc |-> "idle", filters |-> None, df |-> <<>>]

\* the rows of the table the threads' engine is constructed over: a net price at
\* the ceiling the threads may ask for and one above it
ThreadRows == {BaseRow, [BaseRow EXCEPT !.net_price_public = Num(2)]}

-----------------------------------------------------------------------------
(* State machine *)

\* api/main.py as imported: the limiter has seen no call yet
Keys == {"u1", "u2"}
NoResponse == [key |-> "", at |-> 0, status |-> 0]
LimiterIdle ==
    /\ now = 0
    /\ upload_limiter = [k \in Keys |-> <<>>]
    /\ accepted = [k \in Keys |-> <<>>]
    /\ response = NoResponse

\* api/main.py as imported over a new database file: init_database has created
\* the two tables, no worker thread has served a request
Users == Keys
Workers == {1, 2}
NoPayload == [name |-> "", portfolio |-> <<>>]
IdleRequest ==
    [pc |-> "idle", op |-> "none", user_id |-> "", profile_id |-> 0,
     payload |-> NoPayload, status |-> 0]
EmptyTables ==
    [profiles |-> {}, portfolio_items |-> {},
     sqlite_sequence |-> [profiles |-> 0, portfolio_items |-> 0]]
ProfilesIdle ==
    /\ tables = EmptyTables
    /\ requests = [w \in Workers |-> IdleRequest]

\* etl_college_data.py before fetch_all_data is called
FetchIdle ==
    /\ api = [total |-> 0, results |-> <<>>]
    /\ page = 0
    /\ total_pages = 1
    /\ all_records = <<>>
    /\ fetch_pc = "loop"
    /\ failures = [rate_limited |-> 0, errors |-> 0]

ServiceIdle == LimiterIdle /\ ProfilesIdle /\ FetchIdle

\* the state before either script has run, for tables of at most n rows and a
\* database file that is one of Dbs
InitDb(Rows, Argvs, n, Dbs) ==
    /\ schools_fetched \in BOOLEAN
    /\ raw_data \in (IF schools_fetched THEN SeqsUpTo(Rows, n) ELSE {<<>>})
    /\ argv \in Argvs
    /\ quicksort_ties \in {"original", "reversed"}
    /\ db \in Dbs
    /\ etl_done = FALSE
    /\ pc = "start"
    /\ filters = None
    /\ engine = [exists |-> FALSE, programs |-> <<>>]
    /\ error = "none"
    /\ rankings = <<>>
    /\ feature_input = None
    /\ stdout = ""
    /\ exported = FALSE
    /\ calls = [t \in Threads |-> IdleCall]
    /\ ServiceIdle

\* the state before either script has run, when no database file exists yet
InitRows(Rows, Argvs, n) == InitDb(Rows, Argvs, n, {[exists |-> FALSE, programs |-> <<>>]})
InitWith(Rows, Argvs) == InitRows(Rows, Argvs, MaxRows)

Init == InitWith(PriceRows, PriceArgvs)
InitFilter == InitWith(FilterRows, FilterArgvs)
InitFeature == InitWith(FeatureRows, FeatureArgvs)
InitScore == InitWith(ScoreRows, FeatureArgvs)
InitDensity == InitWith(DensityRows, FeatureArgvs)
InitScope == InitWith(ScopeRows, ScopeArgvs)
InitNorm == InitWith(NormRows, FeatureArgvs)
InitCeiling == InitWith(CeilingRows, CeilingArgvs)
InitCache == InitDb(HousingRows, FeatureArgvs, MaxRows, CachedDbs)
InitImpute == InitRows(ImputeRows, FeatureArgvs, MaxImputeRows)

\* etl_college_data.main: fetch, transpose, calculate metrics, save
EtlMain ==
    /\ ~etl_done
    /\ etl_done' = TRUE
    /\ db' = IF ~schools_fetched THEN db
             ELSE save_to_db([i \in 1..Len(raw_data) |-> calculate_derived_metrics(raw_data[i])])
    /\ UNCHANGED <<serviceVars, calls, raw_data, schools_fetched, quicksort_ties, argv, pc, filters, engine,
                   error, rankings, feature_input, stdout, exported>>

\* main, lines 269-283: parse the command line into ProgramFilters
ParseArgs ==
    /\ pc = "start"
    /\ filters' = Some(ProgramFilters(argv.cip_prefix, argv.credential_level,
                                      argv.region_id, argv.max_net_price, argv.top_k))
    /\ pc' = "parsed"
    /\ UNCHANGED <<serviceVars, calls, raw_data, schools_fetched, db, etl_done, quicksort_ties, argv, engine,
                   error, rankings, feature_input, stdout, exported>>

\* mutant of ConstructEngine: the programs table is not checked for being empty
ConstructEngine_no_empty_check ==
    /\ pc = "parsed"
    /\ IF ~db.exists
       THEN /\ error' = "FileNotFoundError"
            /\ pc' = "crashed"
            /\ UNCHANGED engine
       ELSE /\ engine' = [exists |-> TRUE, programs |-> load_program_frame(db.programs)]
            /\ pc' = "constructed"
            /\ UNCHANGED error
    /\ UNCHANGED <<serviceVars, calls, raw_data, schools_fetched, db, etl_done, quicksort_ties, argv, filters,
                   rankings, feature_input, stdout, exported>>

\* main, line 285: ProgramDecisionEngine.__init__ and _load_program_frame;
\* an exception leaves main, so nothing after it runs
ConstructEngine ==
    /\ pc = "parsed"
    /\ IF ~db.exists
       THEN /\ error' = "FileNotFoundError"
            /\ pc' = "crashed"
            /\ UNCHANGED engine
       ELSE IF db.programs = <<>>
       THEN /\ error' = "ValueError"
            /\ pc' = "crashed"
            /\ UNCHANGED engine
       ELSE /\ engine' = [exists |-> TRUE, programs |-> load_program_frame(db.programs)]
            /\ pc' = "constructed"
            /\ UNCHANGED error
    /\ UNCHANGED <<serviceVars, calls, raw_data, schools_fetched, db, etl_done, quicksort_ties, argv, filters,
                   rankings, feature_input, stdout, exported>>

\* df.get("housing_discrepancy_flag", False).fillna(False), line 114, on a frame
\* without that column: df.get returns the bool False, which has no fillna
FlagColumnAbsent(df) == "housing_discrepancy_flag" \notin DOMAIN df[1]

\* main, line 286: engine.rank_programs(filters); an AttributeError raised in
\* _build_feature_space leaves main
RankPrograms ==
    /\ pc = "constructed"
    /\ LET sub == apply_filters(engine.programs, Val(filters))
       IN  IF sub # <<>> /\ FlagColumnAbsent(sub)
           THEN /\ error' = "AttributeError"
                /\ pc' = "raised"
                /\ UNCHANGED <<rankings, feature_input>>
           ELSE LET returned == rank_programs(engine.programs, Val(filters), quicksort_ties)
                IN  /\ rankings' = returned.df /\ feature_input' = returned.feature_input
                    /\ pc' = "ranked"
                    /\ UNCHANGED error
    /\ UNCHANGED <<serviceVars, calls, raw_data, schools_fetched, db, etl_done, quicksort_ties, argv, filters,
                   engine, stdout, exported>>

\* mutant of Report: the report and the export do not depend on the frame being empty
Report_without_empty_check ==
    /\ pc = "ranked"
    /\ stdout' = "report" /\ exported' = argv.export
    /\ pc' = "done"
    /\ UNCHANGED <<serviceVars, calls, raw_data, schools_fetched, db, etl_done, quicksort_ties, argv, filters,
                   engine, error, rankings, feature_input>>

\* main, lines 288-296: the "no match" message or the report, then the export
Report ==
    /\ pc = "ranked"
    /\ IF rankings = <<>>
       THEN stdout' = "no match" /\ UNCHANGED exported
       ELSE stdout' = "report" /\ exported' = argv.export
    /\ pc' = "done"
    /\ UNCHANGED <<serviceVars, calls, raw_data, schools_fetched, db, etl_done, quicksort_ties, argv, filters,
                   engine, error, rankings, feature_input>>

Next == EtlMain \/ ParseArgs \/ ConstructEngine \/ RankPrograms \/ Report

Spec == Init /\ [][Next]_vars
SpecFilter == InitFilter /\ [][Next]_vars
SpecFeature == InitFeature /\ [][Next]_vars
SpecScore == InitScore /\ [][Next]_vars
SpecDensity == InitDensity /\ [][Next]_vars
SpecScope == InitScope /\ [][Next]_vars
SpecNorm == InitNorm /\ [][Next]_vars
SpecCeiling == InitCeiling /\ [][Next]_vars
SpecCache == InitCache /\ [][Next]_vars
SpecImpute == InitImpute /\ [][Next]_vars

\* the state after the ETL has filled the database and a caller has
\* constructed one engine over it
InitThreads ==
    /\ schools_fetched = TRUE
    /\ raw_data \in SeqsUpTo(ThreadRows, MaxRows) \ {<<>>}
    /\ argv \in FeatureArgvs
    /\ quicksort_ties \in {"original", "reversed"}
    /\ db = save_to_db([i \in 1..Len(raw_data) |-> calculate_derived_metrics(raw_data[i])])
    /\ etl_done = TRUE
    /\ pc = "constructed"
    /\ filters = None
    /\ engine = [exists |-> TRUE, programs |-> load_program_frame(db.programs)]
    /\ error = "none"
    /\ rankings = <<>>
    /\ feature_input = None
    /\ stdout = ""
    /\ exported = FALSE
    /\ calls = [t \in Threads |-> IdleCall]
    /\ ServiceIdle

mainVars == <<serviceVars, raw_data, schools_fetched, db, etl_done, quicksort_ties, argv, pc,
              filters, error, rankings, feature_input, stdout, exported>>

\* mutant of CallRank: the filters are applied to the engine's own frame, which
\* is left holding the filtered rows
CallRank_without_copy(t, f) ==
    /\ engine.exists /\ calls[t].pc = "idle"
    /\ LET df == apply_filters(engine.programs, f)
       IN  /\ calls' = [calls EXCEPT ![t] =
                          [pc |-> IF df = <<>> THEN "returned" ELSE "filtered",
                           filters |-> Some(f), df |-> df]]
           /\ engine' = [engine EXCEPT !.programs = df]
    /\ UNCHANGED mainVars

\* rank_programs, lines 58-60: the thread copies the engine's frame, filters
\* the copy and returns it if it is empty
CallRank(t, f) ==
    /\ engine.exists /\ calls[t].pc = "idle"
    /\ LET df == apply_filters(engine.programs, f)
       IN  calls' = [calls EXCEPT ![t] =
                        [pc |-> IF df = <<>> THEN "returned" ELSE "filtered",
                         filters |-> Some(f), df |-> df]]
    /\ UNCHANGED <<engine, mainVars>>

\* rank_programs, line 62: _build_feature_space works on a copy of the thread's frame
CallBuild(t) ==
    /\ calls[t].pc = "filtered"
    /\ calls' = [calls EXCEPT ![t].pc = "built",
                              ![t].df = build_feature_space(calls[t].df)]
    /\ UNCHANGED <<engine, mainVars>>

\* rank_programs, line 63: sort_values returns a new frame
CallSort(t) ==
    /\ calls[t].pc = "built"
    /\ calls' = [calls EXCEPT ![t].pc = "sorted",
                              ![t].df = sort_values(calls[t].df, quicksort_ties)]
    /\ UNCHANGED <<engine, mainVars>>

\* rank_programs, line 64: the first top_k rows are returned
CallHead(t) ==
    /\ calls[t].pc = "sorted"
    /\ calls' = [calls EXCEPT ![t].pc = "returned",
                              ![t].df = head(calls[t].df, Val(calls[t].filters).top_k)]
    /\ UNCHANGED <<engine, mainVars>>

\* the caller has taken the returned frame; the thread may make another request
CallDone(t) ==
    /\ calls[t].pc = "returned"
    /\ calls' = [calls EXCEPT ![t] = IdleCall]
    /\ UNCHANGED <<engine, mainVars>>

NextThreads ==
    \E t \in Threads :
        \/ \E f \in CallFilters : CallRank(t, f)
        \/ CallBuild(t)
        \/ CallSort(t)
        \/ CallHead(t)
        \/ CallDone(t)

SpecThreads == InitThreads /\ [][NextThreads]_vars

-----------------------------------------------------------------------------
(* api/main.py: SimpleRateLimiter and the upload endpoint that uses it.     *)
(* time.monotonic() is read in whole ticks.  upload_limiter is built as     *)
(* SimpleRateLimiter(UPLOAD_RATE_LIMIT, UPLOAD_RATE_WINDOW) = (10, 60); the *)
(* class is checked here for the smaller instance (max_calls, window).      *)

max_calls == 2
window == 2
MaxTime == 4

\* the state in which no request has reached the API and the pipeline of
\* scripts has not run
PipelineIdle ==
    /\ schools_fetched = FALSE
    /\ raw_data = <<>>
    /\ argv \in FeatureArgvs
    /\ quicksort_ties = "original"
    /\ db = [exists |-> FALSE, programs |-> <<>>]
    /\ etl_done = FALSE
    /\ pc = "start"
    /\ filters = None
    /\ engine = [exists |-> FALSE, programs |-> <<>>]
    /\ error = "none"
    /\ rankings = <<>>
    /\ feature_input = None
    /\ stdout = ""
    /\ exported = FALSE
    /\ calls = [t \in Threads |-> IdleCall]

InitLimiter == PipelineIdle /\ ServiceIdle

\* the while loop of check: entries older than the window leave at the left
RECURSIVE popleft_expired(_, _)
popleft_expired(queue, t) ==
    IF queue # <<>> /\ t - Head(queue) > window
    THEN popleft_expired(Tail(queue), t)
    ELSE queue

\* mutant of check: the call is recorded before the limit is tested
check_records_rejected(key, status) ==
    LET queue == Append(popleft_expired(upload_limiter[key], now), now) IN
    /\ upload_limiter' = [upload_limiter EXCEPT ![key] = queue]
    /\ IF Len(queue) > max_calls
       THEN /\ response' = [key |-> key, at |-> now, status |-> 429]
            /\ UNCHANGED accepted
       ELSE /\ accepted' = [accepted EXCEPT ![key] = Append(@, now)]
            /\ response' = [key |-> key, at |-> now, status |-> status]

\* mutant of check: an entry leaves the deque as soon as its age reaches the
\* window less one tick
check_evicts_early(key, status) ==
    LET queue == popleft_expired(upload_limiter[key], now + 1) IN
    IF Len(queue) >= max_calls
    THEN /\ upload_limiter' = [upload_limiter EXCEPT ![key] = queue]
         /\ response' = [key |-> key, at |-> now, status |-> 429]
         /\ UNCHANGED accepted
    ELSE /\ upload_limiter' = [upload_limiter EXCEPT ![key] = Append(queue, now)]
         /\ accepted' = [accepted EXCEPT ![key] = Append(@, now)]
         /\ response' = [key |-> key, at |-> now, status |-> status]

\* SimpleRateLimiter.check(key) inside a request that ends with `status` when
\* the limiter lets it through
check(key, status) ==
    LET queue == popleft_expired(upload_limiter[key], now) IN
    IF Len(queue) >= max_calls
    THEN /\ upload_limiter' = [upload_limiter EXCEPT ![key] = queue]
         /\ response' = [key |-> key, at |-> now, status |-> 429]
         /\ UNCHANGED accepted
    ELSE /\ upload_limiter' = [upload_limiter EXCEPT ![key] = Append(queue, now)]
         /\ accepted' = [accepted EXCEPT ![key] = Append(@, now)]
         /\ response' = [key |-> key, at |-> now, status |-> status]

\* POST /profiles/upload-media by the user `key`; `stored` tells whether the
\* storage service took the file
upload_profile_media(key, kind, stored) ==
    /\ IF kind \notin {"avatar", "portfolio", "video"}
       THEN /\ response' = [key |-> key, at |-> now, status |-> 400]
            /\ UNCHANGED <<upload_limiter, accepted>>
       ELSE check(key, IF stored THEN 200 ELSE 502)
    /\ UNCHANGED <<now, pipelineVars, profileVars, fetchVars>>

\* the monotonic clock advances between two requests
Tick ==
    /\ now < MaxTime
    /\ now' = now + 1
    /\ UNCHANGED <<upload_limiter, accepted, response, pipelineVars, profileVars, fetchVars>>

NextLimiter ==
    \/ Tick
    \/ \E key \in Keys, kind \in {"avatar", "document"}, stored \in BOOLEAN :
          upload_profile_media(key, kind, stored)

SpecLimiter == InitLimiter /\ [][NextLimiter]_vars

-----------------------------------------------------------------------------
(* api/main.py: the profile endpoints over the profiles and portfolio_items *)
(* tables.  Each request runs in a worker thread with a connection of its   *)
(* own: the SELECT that opens a handler is one step, and the statements up  *)
(* to its commit (one SQLite write transaction) are another.  A NULL column *)
(* is None.                                                                 *)

MaxProfileId == 3
MaxItemId == 3


\* str.strip() over the names and titles that requests carry
strip(s) ==
    CASE s = " n1 " -> "n1"
      [] s = " a " -> "a"
      [] OTHER -> s

\* ProfilePayload: name and portfolio (a list of PortfolioItemPayload titles)
ProfilePayloads ==
    {[name |-> " n1 ", portfolio |-> <<>>],
     [name |-> "n2", portfolio |-> <<" a ", "b">>]}
\* the body of add_portfolio_item is one PortfolioItemPayload
PortfolioItemPayloads == {[name |-> "", portfolio |-> <<" a ">>]}

\* tables as earlier runs of the API and a moderator's review left them: none,
\* an approved profile of u1 with one item, a profile from before the owner_id
\* column was added
StoredTables ==
    {EmptyTables,
     [profiles |-> {[id |-> 1, owner_id |-> Some("u1"), name |-> "n1", status |-> "approved",
                     review_notes |-> Some("ok"), reviewed_at |-> Some("t0")]},
      portfolio_items |-> {[id |-> 1, profile_id |-> 1, title |-> "a"]},
      sqlite_sequence |-> [profiles |-> 1, portfolio_items |-> 1]],
     [profiles |-> {[id |-> 1, owner_id |-> None, name |-> "n1", status |-> "pending",
                     review_notes |-> None, reviewed_at |-> None]},
      portfolio_items |-> {[id |-> 1, profile_id |-> 1, title |-> "b"]},
      sqlite_sequence |-> [profiles |-> 1, portfolio_items |-> 1]]}

InitProfiles ==
    /\ PipelineIdle /\ LimiterIdle /\ FetchIdle
    /\ tables \in StoredTables
    /\ requests = [w \in Workers |-> IdleRequest]

\* rows of a table that a WHERE clause selects
ProfileById(t, profile_id) == {p \in t.profiles : p.id = profile_id}
ProfileByOwner(t, owner_id) == {p \in t.profiles : p.owner_id = Some(owner_id)}
ItemsOf(t, profile_id) == {i \in t.portfolio_items : i.profile_id = profile_id}

\* mutant of ensure_profile_owner: a profile without an owner may be modified
\* by anyone
ensure_profile_owner_null_is_open(t, profile_id, owner_id) ==
    IF ProfileById(t, profile_id) = {} THEN 404
    ELSE LET row == CHOOSE p \in ProfileById(t, profile_id) : TRUE IN
         IF row.owner_id # None /\ row.owner_id # Some(owner_id) THEN 403 ELSE 0

\* ensure_profile_owner: the status of the HTTPException it raises, 0 if none
ensure_profile_owner(t, profile_id, owner_id) ==
    IF ProfileById(t, profile_id) = {} THEN 404
    ELSE LET row == CHOOSE p \in ProfileById(t, profile_id) : TRUE IN
         IF row.owner_id = None \/ row.owner_id # Some(owner_id) THEN 403 ELSE 0

\* insert_portfolio_items: one INSERT per item, ids from the AUTOINCREMENT
\* sequence
insert_portfolio_items(t, profile_id, items) ==
    LET first == t.sqlite_sequence.portfolio_items IN
    [t EXCEPT
       !.portfolio_items = @ \cup {[id |-> first + k, profile_id |-> profile_id,
                                    title |-> strip(items[k])] : k \in 1..Len(items)},
       !.sqlite_sequence.portfolio_items = first + Len(items)]

\* rows that requests in flight are still going to insert
RECURSIVE PendingItems(_)
PendingItems(S) ==
    IF S = {} THEN 0
    ELSE LET w == CHOOSE v \in S : TRUE IN
         (IF requests[w].pc = "idle" THEN 0 ELSE Len(requests[w].payload.portfolio))
            + PendingItems(S \ {w})
PendingProfiles == Cardinality({w \in Workers : requests[w].pc = "selected"})

\* the AUTOINCREMENT sequences stay within the bounds of the model
Room(profile_rows, item_rows) ==
    /\ tables.sqlite_sequence.profiles + PendingProfiles + profile_rows <= MaxProfileId
    /\ tables.sqlite_sequence.portfolio_items + PendingItems(Workers) + item_rows <= MaxItemId

Request(op, user_id, profile_id, payload, next_pc, status) ==
    [pc |-> next_pc, op |-> op, user_id |-> user_id, profile_id |-> profile_id,
     payload |-> payload, status |-> status]

\* the worker has sent its response and holds the request's body no longer
Finish(w, status) ==
    requests' = [requests EXCEPT ![w].pc = "idle", ![w].payload = NoPayload,
                                 ![w].status = status]

\* mutant of create_profile_select: the request goes on to the INSERT whether
\* or not the account has a profile
create_profile_select_unchecked(w, user_id, payload) ==
    /\ requests[w].pc = "idle"
    /\ Room(1, Len(payload.portfolio))
    /\ requests' = [requests EXCEPT ![w] = Request("create_profile", user_id, 0, payload, "selected", 0)]
    /\ UNCHANGED <<tables, pipelineVars, limiterVars, fetchVars>>

\* create_profile up to its SELECT: 409 when the account has a profile
create_profile_select(w, user_id, payload) ==
    /\ requests[w].pc = "idle"
    /\ Room(1, Len(payload.portfolio))
    /\ LET existing == ProfileByOwner(tables, user_id) IN
       requests' = [requests EXCEPT ![w] =
           IF existing # {}
           THEN Request("create_profile", user_id, 0, NoPayload, "idle", 409)
           ELSE Request("create_profile", user_id, 0, payload, "selected", 0)]
    /\ UNCHANGED <<tables, pipelineVars, limiterVars, fetchVars>>

\* mutant of create_profile: the table has no unique index on owner_id
create_profile_without_index(w) ==
    /\ requests[w].pc = "selected" /\ requests[w].op = "create_profile"
    /\ LET r == requests[w]
           profile_id == tables.sqlite_sequence.profiles + 1
           inserted == [tables EXCEPT
               !.profiles = @ \cup {[id |-> profile_id, owner_id |-> Some(r.user_id),
                                     name |-> strip(r.payload.name), status |-> "pending",
                                     review_notes |-> None, reviewed_at |-> None]},
               !.sqlite_sequence.profiles = profile_id]
       IN /\ tables' = insert_portfolio_items(inserted, profile_id, r.payload.portfolio)
          /\ Finish(w, 201)
    /\ UNCHANGED <<pipelineVars, limiterVars, fetchVars>>

\* create_profile from its INSERT to its commit; the unique index
\* idx_profiles_owner refuses a second row of one owner (sqlite3.IntegrityError,
\* which no handler catches: 500)
create_profile(w) ==
    /\ requests[w].pc = "selected" /\ requests[w].op = "create_profile"
    /\ LET r == requests[w]
           profile_id == tables.sqlite_sequence.profiles + 1
           inserted == [tables EXCEPT
               !.profiles = @ \cup {[id |-> profile_id, owner_id |-> Some(r.user_id),
                                     name |-> strip(r.payload.name), status |-> "pending",
                                     review_notes |-> None, reviewed_at |-> None]},
               !.sqlite_sequence.profiles = profile_id]
       IN IF ProfileByOwner(tables, r.user_id) # {}
          THEN Finish(w, 500) /\ UNCHANGED tables
          ELSE /\ tables' = insert_portfolio_items(inserted, profile_id, r.payload.portfolio)
               /\ Finish(w, 201)
    /\ UNCHANGED <<pipelineVars, limiterVars, fetchVars>>

\* add_portfolio_item, update_profile and delete_profile up to the return of
\* ensure_profile_owner
ensure_owner(w, op, user_id, profile_id, payload) ==
    /\ requests[w].pc = "idle"
    /\ Room(0, Len(payload.portfolio))
    /\ LET status == ensure_profile_owner(tables, profile_id, user_id) IN
       requests' = [requests EXCEPT ![w] =
           IF status = 0
           THEN Request(op, user_id, profile_id, payload, "authorized", 0)
           ELSE Request(op, user_id, profile_id, NoPayload, "idle", status)]
    /\ UNCHANGED <<tables, pipelineVars, limiterVars, fetchVars>>

\* add_portfolio_item after ensure_profile_owner
add_portfolio_item(w) ==
    /\ requests[w].pc = "authorized" /\ requests[w].op = "add_portfolio_item"
    /\ tables' = insert_portfolio_items(tables, requests[w].profile_id, requests[w].payload.portfolio)
    /\ Finish(w, 201)
    /\ UNCHANGED <<pipelineVars, limiterVars, fetchVars>>

\* mutant of update_profile: the review columns are left as they were
update_profile_keeps_review(w) ==
    /\ requests[w].pc = "authorized" /\ requests[w].op = "update_profile"
    /\ LET r == requests[w]
           updated == [tables EXCEPT
               !.profiles = {IF p.id = r.profile_id
                             THEN [p EXCEPT !.name = strip(r.payload.name)]
                             ELSE p : p \in @},
               !.portfolio_items = @ \ ItemsOf(tables, r.profile_id)]
       IN tables' = insert_portfolio_items(updated, r.profile_id, r.payload.portfolio)
    /\ Finish(w, 200)
    /\ UNCHANGED <<pipelineVars, limiterVars, fetchVars>>

\* update_profile after ensure_profile_owner: UPDATE, DELETE of the items,
\* insert of the payload's items, commit
update_profile(w) ==
    /\ requests[w].pc = "authorized" /\ requests[w].op = "update_profile"
    /\ LET r == requests[w]
           updated == [tables EXCEPT
               !.profiles = {IF p.id = r.profile_id
                             THEN [p EXCEPT !.name = strip(r.payload.name), !.status = "pending",
                                            !.review_notes = None, !.reviewed_at = None]
                             ELSE p : p \in @},
               !.portfolio_items = @ \ ItemsOf(tables, r.profile_id)]
       IN tables' = insert_portfolio_items(updated, r.profile_id, r.payload.portfolio)
    /\ Finish(w, 200)
    /\ UNCHANGED <<pipelineVars, limiterVars, fetchVars>>

\* mutant of delete_profile: the items are left to ON DELETE CASCADE, which
\* SQLite does not enforce on a connection without PRAGMA foreign_keys
delete_profile_by_cascade(w) ==
    /\ requests[w].pc = "authorized" /\ requests[w].op = "delete_profile"
    /\ tables' = [tables EXCEPT !.profiles = @ \ ProfileById(tables, requests[w].profile_id)]
    /\ Finish(w, 204)
    /\ UNCHANGED <<pipelineVars, limiterVars, fetchVars>>

\* delete_profile after ensure_profile_owner: DELETE of the items, DELETE of
\* the profile, commit
delete_profile(w) ==
    /\ requests[w].pc = "authorized" /\ requests[w].op = "delete_profile"
    /\ tables' = [tables EXCEPT
           !.portfolio_items = @ \ ItemsOf(tables, requests[w].profile_id),
           !.profiles = @ \ ProfileById(tables, requests[w].profile_id)]
    /\ Finish(w, 204)
    /\ UNCHANGED <<pipelineVars, limiterVars, fetchVars>>

\* one step of the worker w in create_profile, update_profile or delete_profile,
\* for request bodies out of Payloads
ServeProfile(w, Payloads) ==
    \/ \E user_id \in Users, payload \in Payloads : create_profile_select(w, user_id, payload)
    \/ create_profile(w)
    \/ \E user_id \in Users, profile_id \in 1..MaxProfileId :
          \/ \E payload \in Payloads :
                ensure_owner(w, "update_profile", user_id, profile_id, payload)
          \/ ensure_owner(w, "delete_profile", user_id, profile_id, NoPayload)
    \/ update_profile(w)
    \/ delete_profile(w)

\* one step of the worker w
Serve(w) ==
    \/ ServeProfile(w, ProfilePayloads)
    \/ \E user_id \in Users, profile_id \in 1..MaxProfileId, payload \in PortfolioItemPayloads :
          ensure_owner(w, "add_portfolio_item", user_id, profile_id, payload)
    \/ add_portfolio_item(w)

\* requests served one after the other
NextProfiles == Serve(1)
SpecProfiles == InitProfiles /\ [][NextProfiles]_vars

\* requests of two workers interleaved
NextProfilesThreaded == \E w \in Workers : ServeProfile(w, {[name |-> "n2", portfolio |-> <<"b">>]})
SpecProfilesThreaded == InitProfiles /\ [][NextProfilesThreaded]_vars

-----------------------------------------------------------------------------
(* etl_college_data.py: fetch_all_data.  One pass through the body of the   *)
(* while loop is one step; the loop condition is evaluated at its end.  The *)
(* API serves BATCH_SIZE = 100 records a page; the loop is checked here for *)
(* the smaller page size below.                                             *)

BATCH_SIZE == 2
MaxPages == 3
MaxFailures == 2

\* what the API answers: metadata.total, which announces at most MaxPages
\* pages, and the results of every page, where record <<p, k>> is the k-th
\* record of page p; the pages need not agree with the total
ApiAnswers ==
    {[total |-> total,
      results |-> [p \in 0..(MaxPages - 1) |-> [k \in 1..sizes[p] |-> <<p, k>>]]] :
        total \in 0..(MaxPages * BATCH_SIZE - 1),
        sizes \in [0..(MaxPages - 1) -> {0, 1, BATCH_SIZE}]}

InitFetch ==
    /\ PipelineIdle /\ LimiterIdle /\ ProfilesIdle
    /\ api \in ApiAnswers
    /\ page = 0
    /\ total_pages = 1
    /\ all_records = <<>>
    /\ fetch_pc = "loop"
    /\ failures = [rate_limited |-> 0, errors |-> 0]

\* `while page < total_pages` after a pass through the body
LoopOrReturn(p, n) == IF p < n THEN "loop" ELSE "returned"

\* the API answers 429: sleep and `continue`
RequestRateLimited ==
    /\ fetch_pc = "loop"
    /\ failures.rate_limited < MaxFailures
    /\ failures' = [failures EXCEPT !.rate_limited = @ + 1]
    /\ fetch_pc' = LoopOrReturn(page, total_pages)
    /\ UNCHANGED <<api, page, total_pages, all_records, pipelineVars, limiterVars, profileVars>>

\* mutant of RequestFailed: the loop moves on to the next page after an error
RequestFailed_moves_on ==
    /\ fetch_pc = "loop"
    /\ failures.errors < MaxFailures
    /\ failures' = [failures EXCEPT !.errors = @ + 1]
    /\ page' = page + 1
    /\ fetch_pc' = LoopOrReturn(page', total_pages)
    /\ UNCHANGED <<api, total_pages, all_records, pipelineVars, limiterVars, profileVars>>

\* requests.get or raise_for_status raises a RequestException: sleep and
\* `continue`, as page < total_pages holds inside the loop
RequestFailed ==
    /\ fetch_pc = "loop"
    /\ failures.errors < MaxFailures
    /\ failures' = [failures EXCEPT !.errors = @ + 1]
    /\ fetch_pc' = IF page < total_pages THEN LoopOrReturn(page, total_pages) ELSE "returned"
    /\ UNCHANGED <<api, page, total_pages, all_records, pipelineVars, limiterVars, profileVars>>

\* the API answers the page: metadata on page 0, `break` on an empty page,
\* otherwise extend and go to the next page
RequestSucceeded ==
    /\ fetch_pc = "loop"
    /\ LET results == api.results[page] IN
       /\ total_pages' = IF page = 0 THEN (api.total \div BATCH_SIZE) + 1 ELSE total_pages
       /\ IF results = <<>>
          THEN /\ fetch_pc' = "returned"
               /\ UNCHANGED <<page, all_records>>
          ELSE /\ all_records' = all_records \o results
               /\ page' = page + 1
               /\ fetch_pc' = LoopOrReturn(page', total_pages')
    /\ UNCHANGED <<api, failures, pipelineVars, limiterVars, profileVars>>

NextFetch ==
    \/ RequestRateLimited
    \/ RequestFailed
    \/ RequestSucceeded

SpecFetch == InitFetch /\ [][NextFetch]_vars

\* every request that keeps being made is answered in the end
SpecFetchFair == SpecFetch /\ WF_vars(RequestSucceeded)

-----------------------------------------------------------------------------
(* Properties *)

\* main has received the frame rank_programs returned
Ranked == pc \in {"ranked", "done"}

\* the request's filters and the table the engine loaded
F == Val(filters)
Loaded == engine.programs

Score(r) == r.program_opportunity_score
Rows(df) == {df[i] : i \in 1..Len(df)}
Indexes(df) == {df[i].index : i \in 1..Len(df)}

\* the rows that passed the cip_prefix, credential_level and region_id filters,
\* and the net price resolved for each of them over that subset
BasicSubset == apply_basic_filters(Loaded, F)
PriceAtFilter == resolve_net_price(BasicSubset)

\* C1: the returned rows are in descending program_opportunity_score order and
\* rows of equal score keep the row order of the loaded table.
C1_DescendingStableOrder ==
    Ranked =>
        \A i, j \in 1..Len(rankings) :
            i < j =>
                /\ RLe(Score(rankings[j]), Score(rankings[i]))
                /\ Score(rankings[i]) = Score(rankings[j])
                      => rankings[i].index < rankings[j].index

\* C2 as stated: with max_net_price supplied, the derived features of every
\* returned row are those computed over the cip/credential/region subset.
C2_FeaturesOverBasicSubset ==
    (Ranked /\ ~IsNone(F.max_net_price)) =>
        Rows(rankings) \subseteq Rows(build_feature_space(BasicSubset))

\* C2 amended: with max_net_price supplied, the rows above the ceiling (net price
\* resolved over the cip/credential/region subset) are excluded first, and the
\* derived features of every returned row are computed over the surviving rows.
C2_FeaturesOverSurvivors ==
    (Ranked /\ ~IsNone(F.max_net_price)) =>
        LET survivors == Mask(BasicSubset,
                              [i \in 1..Len(BasicSubset) |->
                                  RLe(PriceAtFilter[i], Val(F.max_net_price))])
        IN  /\ feature_input = (IF survivors = <<>> THEN None ELSE Some(survivors))
            /\ Rows(rankings) \subseteq Rows(build_feature_space(survivors))

\* C2 witness: a ceiling excluded some row and a row was returned whose features
\* differ from the ones the cip/credential/region subset would give it.
C2_Witness ==
    /\ Ranked /\ ~IsNone(F.max_net_price)
    /\ rankings # <<>>
    /\ Len(Val(feature_input)) < Len(BasicSubset)
    /\ ~(Rows(rankings) \subseteq Rows(build_feature_space(BasicSubset)))

\* r satisfies every filter of f that was supplied (is not None)
SatisfiesSupplied(r, f) ==
    /\ ~IsNone(f.cip_prefix) => StartsWith(r.program_code, Val(f.cip_prefix))
    /\ ~IsNone(f.credential_level) => r.program_credential_level = Val(f.credential_level)
    /\ ~IsNone(f.region_id) => r.region_id = Num(Val(f.region_id))

\* C3: the frame handed to feature building holds exactly the loaded rows that
\* satisfy every supplied one of cip_prefix, credential_level and region_id.
C3_ConjunctiveFilters ==
    (Ranked /\ IsNone(F.max_net_price)) =>
        Rows(IF IsNone(feature_input) THEN <<>> ELSE Val(feature_input))
            = {r \in Rows(Loaded) : SatisfiesSupplied(r, F)}

\* the command line supplies a credential level or a region id outside its domain
InvalidFilter(a) ==
    \/ ~IsNone(a.credential_level) /\ Val(a.credential_level) \notin CredentialLevels
    \/ ~IsNone(a.region_id) /\ Val(a.region_id) \notin RegionIds

\* C4: a command line whose credential level or region id is outside its
\* documented domain is rejected before the pipeline runs: main never constructs
\* the engine or ranks for it.
C4_InvalidFilterRejected ==
    InvalidFilter(argv) => pc \notin {"constructed", "ranked", "done"}

\* C5: max_net_price is an inclusive ceiling on the resolved net price: no returned
\* row is above it, every row at or below it is returned when top_k does not
\* truncate, and a ceiling below every resolved net price gives an empty result
\* and no error.
C5_InclusiveCeiling ==
    (Ranked /\ ~IsNone(F.max_net_price)) =>
        LET max == Val(F.max_net_price)
            kept == {BasicSubset[i].index : i \in {k \in 1..Len(BasicSubset) :
                        RLt(PriceAtFilter[k], max) \/ PriceAtFilter[k] = max}}
        IN  /\ Indexes(rankings) \subseteq kept
            /\ F.top_k >= Len(BasicSubset) => Indexes(rankings) = kept
            /\ (\A k \in 1..Len(BasicSubset) : RLt(max, PriceAtFilter[k]))
                  => rankings = <<>> /\ error = "none"

\* C5 witness: a row priced exactly at the ceiling was returned while a row above
\* the ceiling was excluded.
C5_Witness ==
    /\ Ranked /\ ~IsNone(F.max_net_price)
    /\ \E k \in 1..Len(BasicSubset) :
          /\ PriceAtFilter[k] = Val(F.max_net_price)
          /\ BasicSubset[k].index \in Indexes(rankings)
    /\ \E k \in 1..Len(BasicSubset) :
          /\ RLt(Val(F.max_net_price), PriceAtFilter[k])
          /\ BasicSubset[k].index \notin Indexes(rankings)

\* C6: for top_k >= 0 the result holds exactly min(top_k, n) rows, the first
\* min(top_k, n) rows of the whole filtered set in sorted order.
C6_TopKAfterSort ==
    (Ranked /\ F.top_k >= 0) =>
        LET filtered == IF IsNone(feature_input) THEN <<>> ELSE Val(feature_input)
            n == Len(filtered)
            m == IF F.top_k < n THEN F.top_k ELSE n
            sorted == sort_values(build_feature_space(filtered), quicksort_ties)
        IN  /\ Len(rankings) = m
            /\ rankings = SubSeq(sorted, 1, m)

\* C6 witness: top_k cut a filtered set whose rows were not in score order.
C6_Witness ==
    /\ Ranked /\ F.top_k > 0
    /\ ~IsNone(feature_input)
    /\ Len(Val(feature_input)) > F.top_k
    /\ Len(rankings) = F.top_k
    /\ RLt(Score(build_feature_space(Val(feature_input))[1]), Score(rankings[1]))

\* C7: when no row survives the filters rank_programs returns an empty frame,
\* raises nothing and does not build features, and main prints the "no match"
\* message, exports nothing and ends normally.
C7_EmptyResultIsNoMatch ==
    (Ranked /\ apply_filters(Loaded, F) = <<>>) =>
        /\ rankings = <<>>
        /\ IsNone(feature_input)
        /\ error = "none"
        /\ pc = "done" => stdout = "no match" /\ ~exported

\* C7 witness: main ended on a loaded table from which the filters left nothing,
\* with an export requested.
C7_Witness ==
    /\ pc = "done" /\ stdout = "no match"
    /\ Loaded # <<>> /\ apply_filters(Loaded, F) = <<>>
    /\ argv.export

\* the exceptions with which the code reports that the data is unavailable
DataUnavailable == {"FileNotFoundError", "ValueError"}

\* C8: constructing the engine fails exactly when the database file is missing or
\* the programs table has no row; the failure ends main for good: no engine
\* exists, nothing is ranked, and the construction is not attempted again.
C8_LoadFailsOnce ==
    [][/\ (pc = "parsed" /\ pc' # "parsed") =>
             /\ (~db.exists \/ db.programs = <<>>) <=> pc' = "crashed"
             /\ pc' = "crashed" => error' \in DataUnavailable /\ ~engine'.exists
             /\ pc' # "crashed" =>
                   engine'.exists /\ engine'.programs # <<>> /\ error' = "none"
       /\ pc = "crashed" =>
             /\ pc' = "crashed" /\ error' = error
             /\ ~engine'.exists /\ rankings' = <<>> /\ stdout' = ""
      ]_vars

\* C8 witness: main ended with the error raised for a programs table of zero rows.
C8_Witness ==
    pc = "crashed" /\ error = "ValueError" /\ db.exists /\ db.programs = <<>>

\* C9: every returned row has an affordability_score in [0, 1].
C9_AffordabilityInUnitInterval ==
    Ranked =>
        \A r \in Rows(rankings) :
            RLe(Zero, r.affordability_score) /\ RLe(r.affordability_score, One)

InUnit(x) == RLe(Zero, x) /\ RLe(x, One)
RateOk(x) == IsNaN(x) \/ InUnit(x)

\* C10: when every pell_grant_rate and federal_loan_rate of the filtered subset is
\* missing or in [0, 1], each row's net_price_norm, tuition_norm,
\* program_supply_gap, scale_preference_score, supply_gap_score and
\* aid_strength_score is in [0, 1].
C10_NormsAndScoresInUnitInterval ==
    (Ranked /\ ~IsNone(feature_input)
        /\ \A r \in Rows(Val(feature_input)) :
              RateOk(r.pell_grant_rate) /\ RateOk(r.federal_loan_rate)) =>
        \A r \in Rows(rankings) :
            /\ InUnit(r.net_price_norm) /\ InUnit(r.tuition_norm)
            /\ InUnit(r.program_supply_gap) /\ InUnit(r.scale_preference_score)
            /\ InUnit(r.supply_gap_score) /\ InUnit(r.aid_strength_score)

\* C10 witness: three rows with in-range rates were scored whose net prices,
\* tuitions and student sizes differ, so that the norms reach both 0 and 1.
C10_Witness ==
    /\ Ranked /\ Len(rankings) = 3
    /\ \A r \in Rows(rankings) : RateOk(r.pell_grant_rate) /\ RateOk(r.federal_loan_rate)
    /\ \E r \in Rows(rankings) : r.net_price_norm = Zero
    /\ \E r \in Rows(rankings) : r.net_price_norm = One
    /\ \E r \in Rows(rankings) : r.tuition_norm = One
    /\ \E r \in Rows(rankings) : r.scale_preference_score = Zero

\* the weighted sum of the three component scores, before the housing penalty
Unpenalised(r) ==
    RAdd(RAdd(RMul(R(45, 100), r.affordability_score),
              RMul(R(30, 100), r.aid_strength_score)),
         RMul(R(25, 100), r.supply_gap_score))

\* C11: every returned row's program_opportunity_score is in [-0.1, 1.0]; it is
\* in [0.0, 1.0] when the row's housing_discrepancy_flag is false, and exactly
\* 0.1 below the weighted sum of its component scores when the flag is true.
C11_ScoreRange ==
    Ranked =>
        \A r \in Rows(rankings) :
            /\ RLe(R(-1, 10), Score(r)) /\ RLe(Score(r), One)
            /\ ~r.housing_discrepancy_flag => InUnit(Score(r))
            /\ r.housing_discrepancy_flag => Score(r) = RSub(Unpenalised(r), R(1, 10))

\* a frame without its index labels
DropIndex(df) ==
    [i \in 1..Len(df) |-> [k \in DOMAIN df[i] \ {"index"} |-> df[i][k]]]

\* the table that holds the rows of the loaded table that match the request's
\* cip_prefix, credential_level and region_id filters, in their order, and
\* nothing else
MatchingOnly == load_program_frame(DropIndex(BasicSubset))

\* C12: the derived fields, scores and ranking depend only on the rows that match
\* the request's filters: the loaded table and the table that holds only its
\* matching rows (any two tables that agree on the matching rows and their
\* order share that table) give the same returned rows, field by field and in
\* the same order.
C12_OnlyMatchingRowsCount ==
    Ranked =>
        DropIndex(rankings)
            = DropIndex(rank_programs(MatchingOnly, F, quicksort_ties).df)

\* C12 witness: a request with a cip_prefix returned two or more rows while the
\* loaded table also held a row of another program whose net price is none of
\* the matching rows' net prices.
C12_Witness ==
    /\ Ranked /\ ~IsNone(F.cip_prefix) /\ Len(rankings) >= 2
    /\ \E r \in Rows(Loaded) :
          /\ r \notin Rows(BasicSubset)
          /\ ~IsNaN(r.net_price_public)
          /\ \A q \in Rows(BasicSubset) : q.net_price_public # r.net_price_public

\* what the request f returns when it is the only request on an engine newly
\* constructed over the database
Alone(f) == rank_programs(load_program_frame(db.programs), f, quicksort_ties).df

\* C13: rank_programs never modifies the engine's loaded table; every request
\* of any thread, whatever the other threads have done or are doing, returns
\* what the same request returns alone on a fresh engine, and two identical
\* requests return the identical row sequence.
C13_RequestsIndependent ==
    /\ engine.exists => engine.programs = load_program_frame(db.programs)
    /\ \A t \in Threads :
          calls[t].pc = "returned" => calls[t].df = Alone(Val(calls[t].filters))
    /\ \A t, u \in Threads :
          (calls[t].pc = "returned" /\ calls[u].pc = "returned"
              /\ calls[t].filters = calls[u].filters) => calls[t].df = calls[u].df

\* C13 witness: a thread has returned the rows of a request without a ceiling,
\* made after the other thread's request had excluded a row by its ceiling and
\* while that other request is still inside rank_programs.
C13_Witness ==
    /\ calls[1].pc = "built" /\ ~IsNone(Val(calls[1].filters).max_net_price)
    /\ Len(calls[1].df) < Len(engine.programs)
    /\ calls[2].pc = "returned" /\ IsNone(Val(calls[2].filters).max_net_price)
    /\ Len(calls[2].df) = Len(engine.programs) /\ Len(calls[2].df) >= 2

\* C14: for a non-empty filtered subset, whatever null, zero or equal-valued
\* inputs it holds, rank_programs returns every row of it (up to top_k) with a
\* finite program_opportunity_score, and a row whose tuition_in_state is 0 has
\* scholarship_volatility 0.0.
C14_NoNumericEdgeCaseFails ==
    (Ranked /\ ~IsNone(feature_input)) =>
        /\ error = "none"
        /\ Len(rankings) = Len(Val(feature_input))
        /\ \A r \in Rows(rankings) :
              /\ IsFinite(Score(r))
              /\ r.tuition_in_state = Zero => r.scholarship_volatility = Zero

\* C14 witness: the scored rows hold a row with tuition_in_state 0 and a net
\* price, a row with no net price and no tuition at all, and a row with a null
\* region_id.
C14_Witness ==
    /\ Ranked /\ Len(rankings) = 3
    /\ \E r \in Rows(rankings) : r.tuition_in_state = Zero /\ ~IsNaN(r.avg_net_price)
    /\ \E r \in Rows(rankings) :
          IsNaN(r.avg_net_price) /\ IsNaN(r.tuition_in_state) /\ IsNaN(r.tuition_out_of_state)
    /\ \E r \in Rows(rankings) : IsNaN(r.region_id)

\* the frame _build_feature_space was given, the position in it of a returned
\* row, and the aid rates and the student size as the claim's formulas read
\* them: missing rates replaced by the subset mean (0.0 if there is none),
\* a missing size by the subset median (0.0 if there is none)
Sub == Val(feature_input)
PosInSub(r) == CHOOSE k \in 1..Len(Sub) : Sub[k].index = r.index
OrZero(x) == IF IsNaN(x) THEN Zero ELSE x
Pell ==
    [k \in 1..Len(Sub) |->
        FillNa(Sub[k].pell_grant_rate,
               OrZero(Mean([j \in 1..Len(Sub) |-> Sub[j].pell_grant_rate])))]
Loan ==
    [k \in 1..Len(Sub) |->
        FillNa(Sub[k].federal_loan_rate,
               OrZero(Mean([j \in 1..Len(Sub) |-> Sub[j].federal_loan_rate])))]
StudentSize ==
    [k \in 1..Len(Sub) |->
        FillNa(Sub[k].student_size,
               OrZero(Median([j \in 1..Len(Sub) |-> Sub[j].student_size])))]

\* C15: every scored row has program_opportunity_score = 0.45*affordability_score
\* + 0.30*aid_strength_score + 0.25*supply_gap_score - housing_penalty, with
\* aid_strength_score = 0.6*pell + 0.4*(1 - loan_norm), supply_gap_score =
\* 0.7*program_supply_gap + 0.3*scale_preference_score, scale_preference_score =
\* 1 - min_max(student_size), and housing_penalty 0.1 if the row's
\* housing_discrepancy_flag is set and 0.0 otherwise.
C15_ScoreFormula ==
    Ranked =>
        \A r \in Rows(rankings) :
            LET k == PosInSub(r)
            IN  /\ Score(r) = RSub(Unpenalised(r), r.housing_penalty)
                /\ r.aid_strength_score =
                      RAdd(RMul(R(6, 10), Pell[k]),
                           RMul(R(4, 10), RSub(One, min_max(Loan)[k])))
                /\ r.supply_gap_score =
                      RAdd(RMul(R(7, 10), r.program_supply_gap),
                           RMul(R(3, 10), r.scale_preference_score))
                /\ r.scale_preference_score = RSub(One, min_max(StudentSize)[k])
                /\ r.housing_penalty =
                      IF r.housing_discrepancy_flag THEN R(1, 10) ELSE Zero

\* C15 witness: the scored rows hold a row with the housing discrepancy and a
\* row without it, and a row whose three component scores all differ.
C15_Witness ==
    /\ Ranked
    /\ \E r \in Rows(rankings) : r.housing_discrepancy_flag /\ r.housing_penalty = R(1, 10)
    /\ \E r \in Rows(rankings) :
          /\ ~r.housing_discrepancy_flag
          /\ r.affordability_score # r.aid_strength_score
          /\ r.aid_strength_score # r.supply_gap_score
          /\ r.affordability_score # r.supply_gap_score

\* a row without its net price and without what is derived from the net price
\* alone; the rows of a frame differ only in net price when these are equal
WithoutNetPrice(r) ==
    [r EXCEPT !.net_price_public = NaN, !.net_price_private = NaN,
              !.avg_net_price = NaN, !.scholarship_volatility = Zero, !.index = 0]
DifferOnlyInNetPrice(df) ==
    /\ \A r, q \in Rows(df) : WithoutNetPrice(r) = WithoutNetPrice(q)
    /\ \A r \in Rows(df) : ~IsNaN(r.avg_net_price)

\* C16: when the rows of the filtered subset differ only in their net price,
\* each row's net_price_norm is the min-max position of its net price among
\* them, and a row with a strictly lower net price is returned strictly ahead
\* of (and scores strictly more than) every row with a higher net price.
C16_LowerNetPriceRanksAhead ==
    (Ranked /\ ~IsNone(feature_input) /\ DifferOnlyInNetPrice(Sub)) =>
        LET prices == [k \in 1..Len(Sub) |-> Sub[k].avg_net_price]
            lo == SeriesMin(prices)
            hi == SeriesMax(prices)
        IN  /\ \A r \in Rows(rankings) :
                  r.net_price_norm =
                      IF lo = hi THEN Half
                      ELSE RDiv(RSub(r.avg_net_price, lo), RSub(hi, lo))
            /\ \A a, b \in 1..Len(rankings) :
                  RLt(rankings[a].avg_net_price, rankings[b].avg_net_price) =>
                      a < b /\ RLt(Score(rankings[b]), Score(rankings[a]))

\* C16 witness: three rows that differ only in their net prices 1, 2 and 3 were
\* returned in this order with net_price_norm 0, 0.5 and 1, from a table that
\* held them in another order.
C16_Witness ==
    /\ Ranked /\ ~IsNone(feature_input) /\ DifferOnlyInNetPrice(Sub)
    /\ Len(rankings) = 3
    /\ \A k \in 1..3 : rankings[k].avg_net_price = Num(k)
                        /\ rankings[k].net_price_norm = R(k - 1, 2)
    /\ rankings[1].index = 2

\* the number of rows of the scored subset that share r's (program_code,
\* region_id) pair, a null region_id counted as a value of its own
GroupSize(r) ==
    Cardinality({k \in 1..Len(Sub) : /\ Sub[k].program_code = r.program_code
                                      /\ Sub[k].region_id = r.region_id})

\* C17 as claimed: a row that is the only row of its (program_code, region_id)
\* group in the filtered subset receives program_supply_gap 0.5, whatever the
\* sizes of the other groups.
C17_SingletonIsNeutral ==
    Ranked =>
        \A r \in Rows(rankings) : GroupSize(r) = 1 => r.program_supply_gap = Half

\* C17: a row that is the only row of its (program_code, region_id) group in the
\* filtered subset receives program_supply_gap 1.0 when it has a region_id and
\* some group of rows with a region_id holds more than one row, and 0.5
\* otherwise (no larger group, or the row's region_id is null).
C17_SingletonIsRarest ==
    Ranked =>
        \A r \in Rows(rankings) :
            GroupSize(r) = 1 =>
                r.program_supply_gap =
                    IF /\ ~IsNaN(r.region_id)
                       /\ \E q \in Rows(Sub) : ~IsNaN(q.region_id) /\ GroupSize(q) > 1
                    THEN One ELSE Half

\* C17 witness: the scored subset holds a group of two rows and a row alone in
\* its group, which received program_supply_gap 1.0.
C17_Witness ==
    /\ Ranked /\ Len(rankings) = 3
    /\ \E r, q \in Rows(rankings) :
          /\ GroupSize(r) = 1 /\ ~IsNaN(r.region_id) /\ r.program_supply_gap = One
          /\ GroupSize(q) = 2 /\ ~IsNaN(q.region_id) /\ q.program_supply_gap = Zero

\* a quotient, with 0.0 in place of an infinite or missing result
QuotientOrZero(a, b) ==
    LET q == RDiv(RSub(a, b), a) IN IF IsFinite(q) THEN q ELSE Zero

\* C18 as claimed: every scored row's scholarship_volatility is
\* (resolved_tuition - avg_net_price_resolved) / resolved_tuition, from the
\* tuition and the net price resolved for the request, and 0.0 when that
\* quotient is a division by zero, infinite or NaN.
C18_VolatilityFromResolvedValues ==
    Ranked =>
        \A r \in Rows(rankings) :
            r.scholarship_volatility
                = QuotientOrZero(r.resolved_tuition, r.avg_net_price_resolved)

\* C18: every scored row's scholarship_volatility is the value the ETL stored:
\* (tuition_in_state - avg_net_price) / tuition_in_state with avg_net_price the
\* public net price or else the private one, and 0.0 when that quotient is a
\* division by zero, infinite or NaN; neither the out-of-state tuition nor the
\* subset median enters it.
C18_VolatilityFromStoredValues ==
    Ranked =>
        \A r \in Rows(rankings) :
            r.scholarship_volatility
                = QuotientOrZero(r.tuition_in_state,
                                 FillNa(r.net_price_public, r.net_price_private))

\* C18 witness: a scored row without in-state tuition, whose out-of-state
\* tuition is above its net price, has scholarship_volatility 0.0, next to a
\* row whose volatility is not 0.
C18_Witness ==
    /\ Ranked
    /\ \E r \in Rows(rankings) :
          /\ IsNaN(r.tuition_in_state)
          /\ RLt(r.avg_net_price_resolved, r.resolved_tuition)
          /\ r.scholarship_volatility = Zero
    /\ \E r \in Rows(rankings) : r.scholarship_volatility # Zero

\* C19 as claimed: every row's region_program_density is the number of rows of
\* the subset that share its (program_code, region_id) pair, rows with a null
\* region_id counted by the same rule; program_supply_gap is
\* 1 - min_max(region_program_density); and of two rows the one with the smaller
\* density never has the smaller program_supply_gap.
C19_DensityCountsEveryRow ==
    Ranked =>
        /\ \A r \in Rows(rankings) :
              /\ r.region_program_density = Num(GroupSize(r))
              /\ r.program_supply_gap =
                    RSub(One, min_max([k \in 1..Len(Sub) |-> Num(GroupSize(Sub[k]))])
                                  [PosInSub(r)])
        /\ \A r, q \in Rows(rankings) :
              GroupSize(r) < GroupSize(q) =>
                  ~RLt(r.program_supply_gap, q.program_supply_gap)

\* the density column of the scored subset: the group size of a row that has a
\* region_id, missing for a row that has none
DensityOfSub ==
    [k \in 1..Len(Sub) |->
        IF IsNaN(Sub[k].region_id) THEN NaN ELSE Num(GroupSize(Sub[k]))]

\* C19: a row that has a region_id has as region_program_density the number of
\* rows of the subset that share its (program_code, region_id) pair; a row with
\* a null region_id has no density and program_supply_gap 0.5;
\* program_supply_gap is 1 - min_max(region_program_density); and of two rows
\* that have a region_id the one with the smaller density never has the
\* smaller program_supply_gap.
C19_DensityCountsRowsWithRegion ==
    Ranked =>
        /\ \A r \in Rows(rankings) :
              /\ r.region_program_density = DensityOfSub[PosInSub(r)]
              /\ r.program_supply_gap = RSub(One, min_max(DensityOfSub)[PosInSub(r)])
              /\ IsNaN(r.region_id) => r.program_supply_gap = Half
        /\ \A r, q \in Rows(rankings) :
              RLt(r.region_program_density, q.region_program_density) =>
                  ~RLt(r.program_supply_gap, q.program_supply_gap)

\* C19 witness: the scored subset holds a row with a null region_id, which has
\* no density and program_supply_gap 0.5, next to two rows that share one
\* (program_code, region_id) pair and have density 2.
C19_Witness ==
    /\ Ranked /\ Len(rankings) = 3
    /\ \E r \in Rows(rankings) :
          /\ IsNaN(r.region_id) /\ IsNaN(r.region_program_density)
          /\ r.program_supply_gap = Half
    /\ \E q \in Rows(rankings) :
          ~IsNaN(q.region_id) /\ q.region_program_density = Num(2)

\* the first non-null of a row's avg_net_price, net_price_public and
\* net_price_private (NaN if all three are null), and these values for a frame
FirstNetPrice(r) ==
    IF ~IsNaN(r.avg_net_price) THEN r.avg_net_price
    ELSE IF ~IsNaN(r.net_price_public) THEN r.net_price_public
    ELSE r.net_price_private
FirstNetPrices(df) == [k \in 1..Len(df) |-> FirstNetPrice(df[k])]

\* C20: every returned row's avg_net_price_resolved is the first non-null of its
\* avg_net_price, net_price_public and net_price_private; if all three are
\* null, it is the median of the values so resolved among the rows of the
\* filtered subset, and 0.0 if no row of the subset has one.
C20_NetPriceResolution ==
    Ranked =>
        \A r \in Rows(rankings) :
            r.avg_net_price_resolved =
                IF ~IsNaN(FirstNetPrice(r)) THEN FirstNetPrice(r)
                ELSE IF DropNa(FirstNetPrices(Sub)) = <<>> THEN Zero
                ELSE Median(FirstNetPrices(Sub))

\* C20 witness: a returned row without any net price was resolved to the median
\* of the filtered subset, which is not the median of the loaded table.
C20_Witness ==
    /\ Ranked
    /\ \E r \in Rows(rankings) :
          /\ IsNaN(FirstNetPrice(r))
          /\ r.avg_net_price_resolved = Median(FirstNetPrices(Sub))
          /\ ~IsNaN(Median(FirstNetPrices(Loaded)))
          /\ r.avg_net_price_resolved # Median(FirstNetPrices(Loaded))

\* the non-missing resolved tuitions of the scored subset, the column that
\* tuition_norm normalizes
Tuitions ==
    {FillNa(Sub[k].tuition_in_state, Sub[k].tuition_out_of_state) : k \in 1..Len(Sub)}
        \ {NaN}

\* C21: when all non-missing values of a normalized column are equal, or the
\* column is entirely missing (a subset of one row included), every row's
\* normalized value is 0.5; checked on the resolved tuition and tuition_norm.
C21_ConstantColumnIsNeutral ==
    (Ranked /\ ~IsNone(feature_input) /\ Cardinality(Tuitions) <= 1) =>
        \A r \in Rows(rankings) : r.tuition_norm = Half

\* C21 witness: three scored rows, one without tuition and two with the same
\* tuition, all have tuition_norm 0.5.
C21_Witness ==
    /\ Ranked /\ Len(rankings) = 3 /\ Cardinality(Tuitions) = 1
    /\ \E r \in Rows(rankings) : IsNaN(r.resolved_tuition)
    /\ \A r \in Rows(rankings) : r.tuition_norm = Half

\* C22: when a column has two or more distinct non-missing values, each
\* non-missing x is mapped to (x - min) / (max - min), min and max taken over
\* the non-missing values, and each missing value to 0.5; checked on the
\* resolved tuition and tuition_norm.
C22_MinMaxOverNonMissing ==
    (Ranked /\ ~IsNone(feature_input) /\ Cardinality(Tuitions) >= 2) =>
        LET lo == CHOOSE v \in Tuitions : \A w \in Tuitions : RLe(v, w)
            hi == CHOOSE v \in Tuitions : \A w \in Tuitions : RLe(w, v)
        IN  \A r \in Rows(rankings) :
                r.tuition_norm =
                    IF IsNaN(r.resolved_tuition) THEN Half
                    ELSE RDiv(RSub(r.resolved_tuition, lo), RSub(hi, lo))

\* C22 witness: three scored rows with tuitions 1, 3 and missing have
\* tuition_norm 0, 1 and 0.5.
C22_Witness ==
    /\ Ranked /\ Len(rankings) = 3
    /\ \E r \in Rows(rankings) : r.resolved_tuition = Num(1) /\ r.tuition_norm = Zero
    /\ \E r \in Rows(rankings) : r.resolved_tuition = Num(3) /\ r.tuition_norm = One
    /\ \E r \in Rows(rankings) : IsNaN(r.resolved_tuition) /\ r.tuition_norm = Half

\* a column of the scored subset with its missing values replaced by the mean
\* (by the median) of its non-missing values, or by 0.0 if it has none
ColumnOfSub(field) == [k \in 1..Len(Sub) |-> Sub[k][field]]
MeanFilled(col) ==
    LET valid == DropNa(col)
        stat == IF valid = <<>> THEN Zero ELSE RDiv(Sum(valid), Num(Len(valid)))
    IN  [k \in 1..Len(col) |-> IF IsNaN(col[k]) THEN stat ELSE col[k]]
MedianFilled(col) ==
    LET valid == DropNa(col)
        stat == IF valid = <<>> THEN Zero ELSE Median(valid)
    IN  [k \in 1..Len(col) |-> IF IsNaN(col[k]) THEN stat ELSE col[k]]

\* C23: a missing pell_grant_rate, federal_loan_rate or student_size enters the
\* scores as the mean pell_grant_rate, the mean federal_loan_rate and the median
\* student_size of the non-missing values of the filtered subset (0.0 if there
\* is none), and the loan rate and the student size are normalized after the
\* replacement.
C23_ImputationBeforeNormalization ==
    Ranked =>
        \A r \in Rows(rankings) :
            LET k == PosInSub(r)
                pell == MeanFilled(ColumnOfSub("pell_grant_rate"))
                loan_norm == min_max(MeanFilled(ColumnOfSub("federal_loan_rate")))
                size_norm == min_max(MedianFilled(ColumnOfSub("student_size")))
            IN  /\ r.aid_strength_score =
                      RAdd(RMul(R(6, 10), pell[k]), RMul(R(4, 10), RSub(One, loan_norm[k])))
                /\ r.scale_preference_score = RSub(One, size_norm[k])

\* C23 witness: a scored row with all three inputs missing, in a subset whose
\* mean loan rate and median student size are not midway between the lowest
\* and the highest value, has a scale_preference_score and a loan term that
\* differ from the neutral 0.5.
C23_Witness ==
    /\ Ranked /\ Len(rankings) = 4
    /\ \E r \in Rows(rankings) :
          /\ IsNaN(r.pell_grant_rate) /\ IsNaN(r.federal_loan_rate) /\ IsNaN(r.student_size)
          /\ r.scale_preference_score = Zero
          /\ r.aid_strength_score = RAdd(RMul(R(6, 10), R(2, 3)), RMul(R(4, 10), R(1, 3)))

\* the row of the loaded table that a returned row stems from
LoadedRow(r) == CHOOSE q \in Rows(Loaded) : q.index = r.index

\* C24: the ETL sets housing_discrepancy_flag exactly when room_board_oncampus -
\* room_board_offcampus > 0.2 * room_board_oncampus, and not when either input
\* is missing; a row whose flag is absent from the table or null is scored with
\* the flag false (no housing penalty), not refused.
C24_HousingFlag ==
    /\ (etl_done /\ schools_fetched) =>
          \A i \in 1..Len(raw_data) :
              LET on == raw_data[i].roomboard_oncampus
                  off == raw_data[i].roomboard_offcampus
              IN  (db.programs[i].housing_discrepancy_flag = One)
                      <=> /\ ~IsNaN(on) /\ ~IsNaN(off)
                          /\ RLt(RMul(R(2, 10), on), RSub(on, off))
    /\ error # "AttributeError"
    /\ Ranked =>
          \A r \in Rows(rankings) :
              (FlagColumnAbsent(Loaded) \/ IsNaN(LoadedRow(r).housing_discrepancy_flag))
                  => ~r.housing_discrepancy_flag /\ r.housing_penalty = Zero

\* C25: when max_net_price is supplied, every returned row's
\* avg_net_price_resolved, which is resolved anew over the rows that passed the
\* net price filter, is at most max_net_price.
C25_ReturnedRowsUnderCeiling ==
    (Ranked /\ ~IsNone(F.max_net_price)) =>
        \A r \in Rows(rankings) : RLe(r.avg_net_price_resolved, Val(F.max_net_price))

\* C25 witness: a returned row without a net price passed the filter with the
\* median of all rows and carries the lower median of the rows that passed.
C25_Witness ==
    /\ Ranked /\ ~IsNone(F.max_net_price) /\ Len(rankings) < Len(BasicSubset)
    /\ \E r \in Rows(rankings) : \E k \in 1..Len(BasicSubset) :
          /\ BasicSubset[k].index = r.index /\ IsNaN(r.avg_net_price)
          /\ RLt(r.avg_net_price_resolved, PriceAtFilter[k])

\* the calls of a key that check let through no more than a window before t
AcceptedWithin(key, t) == {i \in DOMAIN accepted[key] : t - accepted[key][i] <= window}

\* the deque of a key is the tail of the calls check let through for it
IsTailOf(queue, history) ==
    /\ Len(queue) <= Len(history)
    /\ queue = SubSeq(history, Len(history) - Len(queue) + 1, Len(history))

\* C26: of the calls check lets through for one key, any max_calls + 1 span
\* more than a window, so no span of one window holds more than max_calls of
\* them; a deque holds accepted calls only, and a call is turned away with 429
\* only when max_calls accepted calls of its own key lie within the window
\* before it.
C26_RateLimitPerKey ==
    /\ \A key \in Keys : \A i \in DOMAIN accepted[key] :
          i + max_calls \in DOMAIN accepted[key]
             => accepted[key][i + max_calls] - accepted[key][i] > window
    /\ \A key \in Keys : IsTailOf(upload_limiter[key], accepted[key])
    /\ response.status = 429
          => Cardinality(AcceptedWithin(response.key, response.at)) >= max_calls
    /\ response.status \in {200, 502}
          => /\ accepted[response.key] # <<>>
             /\ accepted[response.key][Len(accepted[response.key])] = response.at

\* a user is turned away after an earlier window of theirs has passed and been
\* used again, while the other user has calls of their own in the window
C26_Witness ==
    /\ response.status = 429
    /\ Len(accepted[response.key]) > max_calls
    /\ \E other \in Keys \ {response.key} : AcceptedWithin(other, response.at) # {}

\* this step is the opening SELECT of a request of kind op that worker w takes up
Opens(w, op) ==
    /\ requests[w].pc = "idle"
    /\ requests'[w] # requests[w]
    /\ requests'[w].op = op

\* no two profiles share an owner
OnePerOwner ==
    \A p, q \in tables.profiles :
        (p.owner_id # None /\ p.owner_id = q.owner_id) => p.id = q.id

\* a create_profile request that finds a profile of its account is answered
\* with 409 and writes nothing
CreateRefused ==
    \A w \in Workers :
        (Opens(w, "create_profile") /\ ProfileByOwner(tables, requests'[w].user_id) # {})
            => /\ requests'[w].pc = "idle"
               /\ requests'[w].status = 409
               /\ tables' = tables

\* C27: however create_profile, update_profile and delete_profile requests of
\* two workers interleave, no owner_id has more than one profile, and a
\* create_profile request of a user who owns a profile when the handler looks
\* for one fails with 409 and leaves both tables unchanged.
C27_OneProfilePerOwner == []OnePerOwner /\ [][CreateRefused]_vars

\* two create_profile requests of one user raced: one inserted the profile,
\* the other ran into the unique index; a third one was then refused
C27_Witness ==
    /\ requests[1].op = "create_profile" /\ requests[1].status = 500
    /\ requests[2].op = "create_profile" /\ requests[2].status = 409
    /\ requests[1].user_id = requests[2].user_id
    /\ ProfileByOwner(tables, requests[1].user_id) # {}

\* the requests that go through ensure_profile_owner
Modifying == {"update_profile", "delete_profile", "add_portfolio_item"}

\* the profile the request names is the requesting user's own
OwnedByCaller(r) ==
    \E p \in ProfileById(tables, r.profile_id) : p.owner_id = Some(r.user_id)

\* the answer of a modifying request to a profile that is missing or not the
\* caller's
ModifyRefused ==
    \A w \in Workers :
        (\E op \in Modifying : Opens(w, op))
            => LET r == requests'[w] IN
               /\ tables' = tables
               /\ ProfileById(tables, r.profile_id) = {}
                     => (r.pc = "idle" /\ r.status = 404)
               /\ (ProfileById(tables, r.profile_id) # {} /\ ~OwnedByCaller(r))
                     => (r.pc = "idle" /\ r.status = 403)
               /\ OwnedByCaller(r) => r.pc = "authorized"

\* a modifying request writes to a profile of its caller only
ModifyByOwnerOnly ==
    \A w \in Workers :
        (requests[w].op \in Modifying /\ requests[w].pc # "idle" /\ tables' # tables)
            => OwnedByCaller(requests[w])

\* C28: update_profile, delete_profile and add_portfolio_item requests, served
\* one after the other, change the tables only when the profile's owner_id is
\* the authenticated user; for a missing profile the answer is 404, for a
\* profile of another user or of nobody it is 403, and in both cases the
\* tables stay as they were.
C28_OnlyOwnerModifies == [][ModifyRefused /\ ModifyByOwnerOnly]_vars

\* a delete_profile request for a profile without an owner was answered 403
\* and the profile is still stored with its item
C28_Witness ==
    /\ requests[1].op = "delete_profile" /\ requests[1].status = 403
    /\ \E p \in ProfileById(tables, requests[1].profile_id) :
          p.owner_id = None /\ ItemsOf(tables, p.id) # {}

\* every portfolio item belongs to a stored profile
NoOrphans ==
    \A i \in tables.portfolio_items : ProfileById(tables, i.profile_id) # {}

\* the titles of a profile's items in the order of their ids
TitlesOf(t, profile_id) ==
    LET items == ItemsOf(t, profile_id)
        n == Cardinality(items)
        inOrder == CHOOSE s \in [1..n -> items] :
                      \A j, k \in 1..n : j < k => s[j].id < s[k].id
    IN [k \in 1..n |-> inOrder[k].title]

\* the titles a payload asks for, as the handlers store them
StoredTitles(payload) == [k \in 1..Len(payload.portfolio) |-> strip(payload.portfolio[k])]

\* what a served update_profile request leaves behind
UpdateResets ==
    \A w \in Workers :
        (requests[w].op = "update_profile" /\ requests[w].pc = "authorized"
            /\ requests'[w].pc = "idle")
            => LET r == requests[w] IN
               /\ requests'[w].status = 200
               /\ \E p \in ProfileById(tables', r.profile_id) :
                     /\ p.status = "pending"
                     /\ p.review_notes = None
                     /\ p.reviewed_at = None
               /\ TitlesOf(tables', r.profile_id) = StoredTitles(r.payload)

\* what a served create_profile request leaves behind
CreatedPending ==
    \A w \in Workers :
        (requests[w].op = "create_profile" /\ requests[w].pc = "selected"
            /\ requests'[w].status = 201)
            => \E p \in tables'.profiles :
                  /\ tables'.profiles = tables.profiles \cup {p}
                  /\ ProfileById(tables, p.id) = {}
                  /\ p.owner_id = Some(requests[w].user_id)
                  /\ p.status = "pending"
                  /\ TitlesOf(tables', p.id) = StoredTitles(requests[w].payload)

\* C29: with create_profile, add_portfolio_item, update_profile and
\* delete_profile requests served one after the other, every portfolio item
\* refers to a stored profile; a served update_profile leaves its profile with
\* status 'pending', NULL review_notes and reviewed_at and exactly the items of
\* its payload (titles stripped); a created profile has status 'pending'.
C29_ProfileLifecycle == []NoOrphans /\ [][UpdateResets /\ CreatedPending]_vars

\* the approved profile of u1 was updated with a payload of two items, which
\* replaced the item it had, and is pending again
C29_Witness ==
    /\ requests[1].op = "update_profile" /\ requests[1].status = 200
    /\ \E p \in ProfileById(tables, requests[1].profile_id) :
          /\ p.id = 1 /\ p.status = "pending" /\ p.review_notes = None
          /\ TitlesOf(tables, 1) = <<"a", "b">>
          /\ \A i \in ItemsOf(tables, 1) : i.id > 1

\* the results of the pages 0 .. n - 1 one after the other
RECURSIVE PagesBefore(_)
PagesBefore(n) == IF n = 0 THEN <<>> ELSE PagesBefore(n - 1) \o api.results[n - 1]

\* the output holds the results of the pages before `page`, each once and in
\* page order, and none of these pages was empty
FetchedInOrder ==
    /\ all_records = PagesBefore(page)
    /\ \A p \in 0..(page - 1) : api.results[p] # <<>>

\* the loop has ended at the first empty page or at the announced page count
ReturnedComplete ==
    fetch_pc = "returned"
        => /\ total_pages = (api.total \div BATCH_SIZE) + 1
           /\ IF page < total_pages THEN api.results[page] = <<>> ELSE page = total_pages

\* C30: whatever 429 answers and request errors come in between, the output
\* of fetch_all_data always holds the results of the pages 0, 1, 2, ... before
\* the current one, each once and in page order; when every request that is
\* repeated is answered in the end, the loop ends, and it ends at the first
\* empty page or at total_pages.
C30_PagesOnceInOrder == [](FetchedInOrder /\ ReturnedComplete) /\ <>(fetch_pc = "returned")

\* the loop has returned all announced pages, more than one, after a 429 answer
\* and a failed request
C30_Witness ==
    /\ fetch_pc = "returned"
    /\ page = total_pages /\ page > 1
    /\ all_records = PagesBefore(total_pages)
    /\ failures.rate_limited > 0 /\ failures.errors > 0

====
